---- MODULE Spec2Model ----
(***************************************************************************)
(* Field encryption and HMAC indexing callbacks of pkg/database            *)
(* (database.go): the gorm scope of one record in flight, the callback     *)
(* chains registered by OpenWithCacher, the Key Manager they call, the    *)
(* HMAC helpers initialHMAC / allAllowedHMACs, the cache purging callback  *)
(* callbackPurgeCache, withRetries and the steps of OpenWithCacher under   *)
(* callbackLock.                                                           *)
(***************************************************************************)
EXTENDS Integers, Sequences, FiniteSets, TLC

VARIABLES
    scope,      \* the gorm scope in flight: [table, fields, err]
    op,         \* the persistence operation running on it ("none" when idle)
    pc,         \* index of the next callback of the operation's chain
    row,        \* the persisted columns of the record's row in the database
    pre,        \* history: the scope as it was when the last step started
    last,       \* history: the last step of the chain and what it called
    caller,     \* history: the encrypted column as the caller handed it to the operation
    prev,       \* history: plaintext and stored ciphertext of the preceding successful write
    hKeys,      \* input of the HMAC helpers: the key sequence
    hData,      \* input of the HMAC helpers: the data
    hOut,       \* result of the last HMAC helper applied
    hStore,     \* a verification code row written earlier: its data, its signature, the keys then
    cacher,     \* whether OpenWithCacher was given a cacher (TRUE) or nil (FALSE)
    deletes,    \* the cacher.Delete calls of the operation in flight, in call order
    rt,         \* the withRetries call in flight
    ow,         \* the OpenWithCacher calls of the process and the package's callbackLock
    run,        \* history: the callbacks applied to the record since the caller last took it up
    grant,      \* the rbac.CompileAndAuthorize call: its arguments and what it returned
    login       \* the login handler: the session store and the last request served

vars == <<scope, op, pc, row, pre, last, caller, prev, hKeys, hData, hOut,
          hStore, cacher, deletes, rt, ow, run, grant, login>>

(***************************************************************************)
(* Bounds of the model.                                                    *)
(***************************************************************************)
MaxNonce == 2      \* distinct ciphertexts the Key Manager may return for one input
MaxDepth == 1      \* how often a value may be encrypted over an earlier ciphertext
MaxKeys == 3       \* longest HMAC key sequence

Nonces == 1..MaxNonce
HMACKeys == {"kA", "kB"}
KeySeqs == UNION {[1..n -> HMACKeys] : n \in 0..MaxKeys}

(***************************************************************************)
(* Strings.  A string is a tuple: Blank is "", Txt(x) a text that is not   *)
(* valid base64, B64(b) the unpadded standard base64 text of the bytes b,  *)
(* URL64(b) the unpadded URL-safe base64 text of b.                        *)
(***************************************************************************)
Blank == <<>>
Txt(x) == <<"txt", x>>
B64(b) == <<"b64", b>>
URL64(b) == <<"url64", b>>

\* base64util.DecodeString: the bytes of a base64 text, an error otherwise.
DecodeString(s) ==
    IF Len(s) = 2 /\ s[1] = "b64"
    THEN [ok |-> TRUE, b |-> s[2]]
    ELSE [ok |-> FALSE, b |-> <<>>]

(***************************************************************************)
(* The Key Manager (keys.KeyManager).  Encrypt wraps the plaintext under   *)
(* the key id with a nonce of its choice; Decrypt opens a ciphertext made  *)
(* under the same key id and errors on anything else.                      *)
(***************************************************************************)
Encrypt(up, keyID, plaintext, n) ==
    IF up
    THEN [ok |-> TRUE, b |-> <<"ct", keyID, plaintext, n>>]
    ELSE [ok |-> FALSE, b |-> <<>>]

Decrypt(up, keyID, b) ==
    IF up /\ Len(b) = 4 /\ b[1] = "ct" /\ b[2] = keyID
    THEN [ok |-> TRUE, p |-> b[3]]
    ELSE [ok |-> FALSE, p |-> Blank]

\* c.EncryptionKey, the key id every encryption callback is registered with.
EncryptionKey == "k1"
\* A key id the callbacks are not configured with.
OtherKey == "k0"

RECURSIVE Depth(_)
\* How many encryptions or signatures are nested in a string.
Depth(s) ==
    IF Len(s) = 2 /\ s[1] = "b64" /\ Len(s[2]) = 4
    THEN 1 + Depth(s[2][3])
    ELSE IF Len(s) = 2 /\ s[1] = "url64"
    THEN 1 + Depth(s[2][3])
    ELSE 0

(***************************************************************************)
(* gorm scope and fields.                                                  *)
(***************************************************************************)
NoErr == "none"

HasError(sc) == sc.err # NoErr

\* scope.Err: the scope keeps the first error added to it.
Err(sc, e) == [sc EXCEPT !.err = IF sc.err = NoErr THEN e ELSE sc.err]

\* A *string field: nil or pointing to a string.
NilPtr == <<"nil">>
Ptr(s) == <<"ptr", s>>
IsPtr(v) == Len(v) >= 1 /\ v[1] \in {"nil", "ptr"}

\* getFieldString: the field (found or not), its string value, and whether
\* it is a string at all.
getFieldString(sc, name) ==
    IF name \notin DOMAIN sc.fields
    THEN [field |-> FALSE, val |-> Blank, ok |-> FALSE]
    ELSE IF IsPtr(sc.fields[name])
    THEN [field |-> TRUE, val |-> Blank, ok |-> FALSE]
    ELSE [field |-> TRUE, val |-> sc.fields[name], ok |-> TRUE]

\* gorm Field.Set with a string: a string field takes it, a *string field
\* points to it.
Set(sc, name, s) ==
    [sc EXCEPT !.fields[name] = IF IsPtr(@) THEN Ptr(s) ELSE s]

(***************************************************************************)
(* HMAC helpers.                                                           *)
(***************************************************************************)
\* hmac.New(sha512.New, key) written with data and summed.
HMAC512(key, data) == <<"hmac512", key, data>>

\* Variant of initialHMAC that signs with the last key of the sequence.
initialHMACLastKey(keys, data) ==
    IF Len(keys) < 1
    THEN [sig |-> Blank, err |-> "expected at least 1 hmac key"]
    ELSE [sig |-> URL64(HMAC512(keys[Len(keys)], data)), err |-> NoErr]

\* initialHMAC signs with keys[0] (TLA+ index 1) only.
initialHMAC(keys, data) ==
    IF Len(keys) < 1
    THEN [sig |-> Blank, err |-> "expected at least 1 hmac key"]
    ELSE [sig |-> URL64(HMAC512(keys[1], data)), err |-> NoErr]

RECURSIVE allAllowedHMACsLoop(_, _, _, _)
\* The loop of allAllowedHMACs: sigs holds the signatures of keys[1..i-1].
allAllowedHMACsLoop(keys, data, i, sigs) ==
    IF i > Len(keys)
    THEN sigs
    ELSE allAllowedHMACsLoop(keys, data, i + 1,
                             Append(sigs, URL64(HMAC512(keys[i], data))))

RECURSIVE allAllowedHMACsPrepend(_, _, _, _)
\* Variant of the loop that puts each new signature in front.
allAllowedHMACsPrepend(keys, data, i, sigs) ==
    IF i > Len(keys)
    THEN sigs
    ELSE allAllowedHMACsPrepend(keys, data, i + 1,
                                <<URL64(HMAC512(keys[i], data))>> \o sigs)

\* Variant of allAllowedHMACs that returns the signatures newest key last.
allAllowedHMACsReversed(keys, data) ==
    [sigs |-> allAllowedHMACsPrepend(keys, data, 1, <<>>), err |-> NoErr]

\* Variant of allAllowedHMACs that signs with the primary key only.
allAllowedHMACsPrimaryOnly(keys, data) ==
    [sigs |-> IF Len(keys) < 1 THEN <<>> ELSE <<URL64(HMAC512(keys[1], data))>>,
     err |-> NoErr]

\* allAllowedHMACs signs with every key, in key order.
allAllowedHMACs(keys, data) ==
    [sigs |-> allAllowedHMACsLoop(keys, data, 1, <<>>), err |-> NoErr]

\* db.GenerateVerificationCodeHMAC, the hashFunc of the verification_codes
\* callbacks: resolve the verification-code HMAC keys, sign with initialHMAC.
GenerateVerificationCodeHMAC(res, v) ==
    IF ~res.ok
    THEN [sig |-> Blank, err |-> "failed to get keys"]
    ELSE initialHMAC(res.keys, v)

(***************************************************************************)
(* The callbacks.  Each returns the scope as it leaves it and how many     *)
(* times it called Key Manager Encrypt, Key Manager Decrypt and hashFunc.  *)
(***************************************************************************)
Ran(sc, e, d, h) == [scope |-> sc, enc |-> e, dec |-> d, hash |-> h]

\* Variant of callbackKMSDecrypt that returns without scope.Err when Key
\* Manager Decrypt fails.
callbackKMSDecryptSwallow(sc, up, keyID, table, column) ==
    LET real == getFieldString(sc, column)
        ciphertext == real.val
        plainCache == getFieldString(sc, column \o "PlaintextCache")
        cipherCache == getFieldString(sc, column \o "CiphertextCache")
        ptrField == getFieldString(sc, column \o "Ptr")
        s1 == IF plainCache.ok /\ cipherCache.ok /\ ciphertext = cipherCache.val
              THEN Set(sc, column, plainCache.val)
              ELSE sc
        decoded == DecodeString(ciphertext)
        d == Decrypt(up, keyID, decoded.b)
        plaintext == d.p
        s2 == Set(s1, column, plaintext)
        s3 == IF ptrField.field THEN Set(s2, column \o "Ptr", plaintext) ELSE s2
        s4 == IF plainCache.ok THEN Set(s3, column \o "PlaintextCache", plaintext) ELSE s3
        s5 == IF cipherCache.ok THEN Set(s4, column \o "CiphertextCache", ciphertext) ELSE s4
    IN  IF sc.table # table THEN Ran(sc, 0, 0, 0)
        ELSE IF HasError(sc) THEN Ran(sc, 0, 0, 0)
        ELSE IF ~real.ok THEN Ran(sc, 0, 0, 0)
        ELSE IF ciphertext = Blank THEN Ran(sc, 0, 0, 0)
        ELSE IF ~decoded.ok THEN Ran(Err(s1, "invalid ciphertext"), 0, 0, 0)
        ELSE IF ~d.ok THEN Ran(s1, 0, 1, 0)
        ELSE Ran(s5, 0, 1, 0)

\* Variant of callbackKMSDecrypt that never sets the real column to the
\* decrypted plaintext.
callbackKMSDecryptNoSet(sc, up, keyID, table, column) ==
    LET real == getFieldString(sc, column)
        ciphertext == real.val
        plainCache == getFieldString(sc, column \o "PlaintextCache")
        cipherCache == getFieldString(sc, column \o "CiphertextCache")
        ptrField == getFieldString(sc, column \o "Ptr")
        decoded == DecodeString(ciphertext)
        d == Decrypt(up, keyID, decoded.b)
        plaintext == d.p
        s3 == IF ptrField.field THEN Set(sc, column \o "Ptr", plaintext) ELSE sc
        s4 == IF plainCache.ok THEN Set(s3, column \o "PlaintextCache", plaintext) ELSE s3
        s5 == IF cipherCache.ok THEN Set(s4, column \o "CiphertextCache", ciphertext) ELSE s4
    IN  IF sc.table # table THEN Ran(sc, 0, 0, 0)
        ELSE IF HasError(sc) THEN Ran(sc, 0, 0, 0)
        ELSE IF ~real.ok THEN Ran(sc, 0, 0, 0)
        ELSE IF ciphertext = Blank THEN Ran(sc, 0, 0, 0)
        ELSE IF ~decoded.ok THEN Ran(Err(sc, "invalid ciphertext"), 0, 0, 0)
        ELSE IF ~d.ok THEN Ran(Err(sc, "failed to decrypt"), 0, 1, 0)
        ELSE Ran(s5, 0, 1, 0)

\* Variant of callbackKMSDecrypt that leaves CiphertextCache as it found it.
callbackKMSDecryptStaleCipher(sc, up, keyID, table, column) ==
    LET real == getFieldString(sc, column)
        ciphertext == real.val
        plainCache == getFieldString(sc, column \o "PlaintextCache")
        cipherCache == getFieldString(sc, column \o "CiphertextCache")
        ptrField == getFieldString(sc, column \o "Ptr")
        \* the optimization sets the real column and falls through
        s1 == IF plainCache.ok /\ cipherCache.ok /\ ciphertext = cipherCache.val
              THEN Set(sc, column, plainCache.val)
              ELSE sc
        decoded == DecodeString(ciphertext)
        d == Decrypt(up, keyID, decoded.b)
        plaintext == d.p
        s2 == Set(s1, column, plaintext)
        s3 == IF ptrField.field THEN Set(s2, column \o "Ptr", plaintext) ELSE s2
        s4 == IF plainCache.ok THEN Set(s3, column \o "PlaintextCache", plaintext) ELSE s3
        s5 == s4
    IN  IF sc.table # table THEN Ran(sc, 0, 0, 0)
        ELSE IF HasError(sc) THEN Ran(sc, 0, 0, 0)
        ELSE IF ~real.ok THEN Ran(sc, 0, 0, 0)
        ELSE IF ciphertext = Blank THEN Ran(sc, 0, 0, 0)
        ELSE IF ~decoded.ok THEN Ran(Err(s1, "invalid ciphertext"), 0, 0, 0)
        ELSE IF ~d.ok THEN Ran(Err(s1, "failed to decrypt"), 0, 1, 0)
        ELSE Ran(s5, 0, 1, 0)

callbackKMSDecrypt(sc, up, keyID, table, column) ==
    LET real == getFieldString(sc, column)
        ciphertext == real.val
        plainCache == getFieldString(sc, column \o "PlaintextCache")
        cipherCache == getFieldString(sc, column \o "CiphertextCache")
        ptrField == getFieldString(sc, column \o "Ptr")
        \* the optimization sets the real column and falls through
        s1 == IF plainCache.ok /\ cipherCache.ok /\ ciphertext = cipherCache.val
              THEN Set(sc, column, plainCache.val)
              ELSE sc
        decoded == DecodeString(ciphertext)
        d == Decrypt(up, keyID, decoded.b)
        plaintext == d.p
        s2 == Set(s1, column, plaintext)
        s3 == IF ptrField.field THEN Set(s2, column \o "Ptr", plaintext) ELSE s2
        s4 == IF plainCache.ok THEN Set(s3, column \o "PlaintextCache", plaintext) ELSE s3
        s5 == IF cipherCache.ok THEN Set(s4, column \o "CiphertextCache", ciphertext) ELSE s4
    IN  IF sc.table # table THEN Ran(sc, 0, 0, 0)
        ELSE IF HasError(sc) THEN Ran(sc, 0, 0, 0)
        ELSE IF ~real.ok THEN Ran(sc, 0, 0, 0)
        ELSE IF ciphertext = Blank THEN Ran(sc, 0, 0, 0)
        ELSE IF ~decoded.ok THEN Ran(Err(s1, "invalid ciphertext"), 0, 0, 0)
        ELSE IF ~d.ok THEN Ran(Err(s1, "failed to decrypt"), 0, 1, 0)
        ELSE Ran(s5, 0, 1, 0)

\* Variant of callbackKMSEncrypt without the check for a blank plaintext.
callbackKMSEncryptBlank(sc, up, n, keyID, table, column) ==
    LET real == getFieldString(sc, column)
        plaintext == real.val
        plainCache == getFieldString(sc, column \o "PlaintextCache")
        cipherCache == getFieldString(sc, column \o "CiphertextCache")
        ptrField == getFieldString(sc, column \o "Ptr")
        s1 == IF plainCache.ok /\ cipherCache.ok /\ plaintext = plainCache.val
              THEN Set(sc, column, cipherCache.val)
              ELSE sc
        e == Encrypt(up, keyID, plaintext, n)
        ciphertext == B64(e.b)
        s2 == Set(s1, column, ciphertext)
        s3 == IF ptrField.field THEN Set(s2, column \o "Ptr", ciphertext) ELSE s2
        s4 == IF plainCache.ok THEN Set(s3, column \o "PlaintextCache", plaintext) ELSE s3
        s5 == IF cipherCache.ok THEN Set(s4, column \o "CiphertextCache", ciphertext) ELSE s4
    IN  IF sc.table # table THEN Ran(sc, 0, 0, 0)
        ELSE IF HasError(sc) THEN Ran(sc, 0, 0, 0)
        ELSE IF ~real.ok THEN Ran(sc, 0, 0, 0)
        ELSE IF ~e.ok THEN Ran(Err(s1, "failed to encrypt"), 1, 0, 0)
        ELSE Ran(s5, 1, 0, 0)

\* Variant of callbackKMSEncrypt that leaves PlaintextCache as it found it.
callbackKMSEncryptStalePlain(sc, up, n, keyID, table, column) ==
    LET real == getFieldString(sc, column)
        plaintext == real.val
        plainCache == getFieldString(sc, column \o "PlaintextCache")
        cipherCache == getFieldString(sc, column \o "CiphertextCache")
        ptrField == getFieldString(sc, column \o "Ptr")
        \* the optimization sets the real column and falls through
        s1 == IF plainCache.ok /\ cipherCache.ok /\ plaintext = plainCache.val
              THEN Set(sc, column, cipherCache.val)
              ELSE sc
        e == Encrypt(up, keyID, plaintext, n)
        ciphertext == B64(e.b)
        s2 == Set(s1, column, ciphertext)
        s3 == IF ptrField.field THEN Set(s2, column \o "Ptr", ciphertext) ELSE s2
        s4 == s3
        s5 == IF cipherCache.ok THEN Set(s4, column \o "CiphertextCache", ciphertext) ELSE s4
    IN  IF sc.table # table THEN Ran(sc, 0, 0, 0)
        ELSE IF HasError(sc) THEN Ran(sc, 0, 0, 0)
        ELSE IF ~real.ok THEN Ran(sc, 0, 0, 0)
        ELSE IF plaintext = Blank THEN Ran(sc, 0, 0, 0)
        ELSE IF ~e.ok THEN Ran(Err(s1, "failed to encrypt"), 1, 0, 0)
        ELSE Ran(s5, 1, 0, 0)

\* Variant of callbackKMSEncrypt that leaves CiphertextCache as it found it.
callbackKMSEncryptStaleCipher(sc, up, n, keyID, table, column) ==
    LET real == getFieldString(sc, column)
        plaintext == real.val
        plainCache == getFieldString(sc, column \o "PlaintextCache")
        cipherCache == getFieldString(sc, column \o "CiphertextCache")
        ptrField == getFieldString(sc, column \o "Ptr")
        \* the optimization sets the real column and falls through
        s1 == IF plainCache.ok /\ cipherCache.ok /\ plaintext = plainCache.val
              THEN Set(sc, column, cipherCache.val)
              ELSE sc
        e == Encrypt(up, keyID, plaintext, n)
        ciphertext == B64(e.b)
        s2 == Set(s1, column, ciphertext)
        s3 == IF ptrField.field THEN Set(s2, column \o "Ptr", ciphertext) ELSE s2
        s4 == IF plainCache.ok THEN Set(s3, column \o "PlaintextCache", plaintext) ELSE s3
        s5 == s4
    IN  IF sc.table # table THEN Ran(sc, 0, 0, 0)
        ELSE IF HasError(sc) THEN Ran(sc, 0, 0, 0)
        ELSE IF ~real.ok THEN Ran(sc, 0, 0, 0)
        ELSE IF plaintext = Blank THEN Ran(sc, 0, 0, 0)
        ELSE IF ~e.ok THEN Ran(Err(s1, "failed to encrypt"), 1, 0, 0)
        ELSE Ran(s5, 1, 0, 0)

callbackKMSEncrypt(sc, up, n, keyID, table, column) ==
    LET real == getFieldString(sc, column)
        plaintext == real.val
        plainCache == getFieldString(sc, column \o "PlaintextCache")
        cipherCache == getFieldString(sc, column \o "CiphertextCache")
        ptrField == getFieldString(sc, column \o "Ptr")
        \* the optimization sets the real column and falls through
        s1 == IF plainCache.ok /\ cipherCache.ok /\ plaintext = plainCache.val
              THEN Set(sc, column, cipherCache.val)
              ELSE sc
        e == Encrypt(up, keyID, plaintext, n)
        ciphertext == B64(e.b)
        s2 == Set(s1, column, ciphertext)
        s3 == IF ptrField.field THEN Set(s2, column \o "Ptr", ciphertext) ELSE s2
        s4 == IF plainCache.ok THEN Set(s3, column \o "PlaintextCache", plaintext) ELSE s3
        s5 == IF cipherCache.ok THEN Set(s4, column \o "CiphertextCache", ciphertext) ELSE s4
    IN  IF sc.table # table THEN Ran(sc, 0, 0, 0)
        ELSE IF HasError(sc) THEN Ran(sc, 0, 0, 0)
        ELSE IF ~real.ok THEN Ran(sc, 0, 0, 0)
        ELSE IF plaintext = Blank THEN Ran(sc, 0, 0, 0)
        ELSE IF ~e.ok THEN Ran(Err(s1, "failed to encrypt"), 1, 0, 0)
        ELSE Ran(s5, 1, 0, 0)

\* Variant of callbackHMAC that writes the signature to the code column
\* whatever its own column is.
callbackHMACCodeOnly(sc, res, table, column) ==
    LET field == getFieldString(sc, column)
        value == field.val
        h == GenerateVerificationCodeHMAC(res, value)
    IN  IF sc.table # table THEN Ran(sc, 0, 0, 0)
        ELSE IF HasError(sc) THEN Ran(sc, 0, 0, 0)
        ELSE IF ~field.ok THEN Ran(sc, 0, 0, 0)
        ELSE IF value = Blank THEN Ran(sc, 0, 0, 0)
        ELSE IF h.err # NoErr THEN Ran(Err(sc, "failed to generate HMAC"), 0, 0, 1)
        ELSE Ran(Set(sc, "code", h.sig), 0, 0, 1)

callbackHMAC(sc, res, table, column) ==
    LET field == getFieldString(sc, column)
        value == field.val
        h == GenerateVerificationCodeHMAC(res, value)
    IN  IF sc.table # table THEN Ran(sc, 0, 0, 0)
        ELSE IF HasError(sc) THEN Ran(sc, 0, 0, 0)
        ELSE IF ~field.ok THEN Ran(sc, 0, 0, 0)
        ELSE IF value = Blank THEN Ran(sc, 0, 0, 0)
        ELSE IF h.err # NoErr THEN Ran(Err(sc, "failed to generate HMAC"), 0, 0, 1)
        ELSE Ran(Set(sc, column, h.sig), 0, 0, 1)


(***************************************************************************)
(* Tables, records and the callback chains OpenWithCacher registers.       *)
(***************************************************************************)
EncTables == {"sms_configs", "email_configs", "realms"}
Tables == EncTables \cup {"verification_codes"}

\* The encrypted column of each table, as registered.
EncColumn(t) ==
    CASE t = "sms_configs" -> "TwilioAuthToken"
      [] t = "email_configs" -> "SMTPPassword"
      [] t = "realms" -> "UserReportWebhookSecret"

Hook(fn, t, c) == [fn |-> fn, table |-> t, column |-> c]

EncryptHooks ==
    << Hook("encrypt", "sms_configs", "TwilioAuthToken"),
       Hook("encrypt", "email_configs", "SMTPPassword"),
       Hook("encrypt", "realms", "UserReportWebhookSecret") >>

DecryptHooks ==
    << Hook("decrypt", "sms_configs", "TwilioAuthToken"),
       Hook("decrypt", "email_configs", "SMTPPassword"),
       Hook("decrypt", "realms", "UserReportWebhookSecret") >>

HMACHooks ==
    << Hook("hmac", "verification_codes", "code"),
       Hook("hmac", "verification_codes", "long_code") >>

\* Variant of the chains with the encrypt callbacks registered after the
\* write instead of before it.
ChainEncryptAfterWrite(kind) ==
    CASE kind = "create" ->
            HMACHooks \o <<Hook("gorm:write", "", "")>> \o EncryptHooks \o DecryptHooks
      [] kind = "update" ->
            <<Hook("gorm:write", "", "")>> \o EncryptHooks \o DecryptHooks
      [] kind = "query" ->
            <<Hook("gorm:query", "", "")>> \o DecryptHooks

\* The callbacks of one operation, in the order gorm runs them.
Chain(kind) ==
    CASE kind = "create" ->
            EncryptHooks \o HMACHooks \o <<Hook("gorm:write", "", "")>> \o DecryptHooks
      [] kind = "update" ->
            EncryptHooks \o <<Hook("gorm:write", "", "")>> \o DecryptHooks
      [] kind = "query" ->
            <<Hook("gorm:query", "", "")>> \o DecryptHooks

Kinds == {"create", "update", "query"}

\* The columns of a table that are stored in the database (the cache and
\* Ptr fields live in the struct only).
Persisted(t) ==
    IF t \in EncTables THEN {EncColumn(t)} ELSE {"code", "long_code"}

\* Values a caller puts in a column: nothing or a text.
CallerValues == {Blank, Txt("a"), Txt("b")}

\* What the column of a row already in the database may hold: nothing, a
\* text stored unencrypted, a ciphertext of this key id, a ciphertext of
\* another key id.
StoredValues ==
    {Blank, Txt("a"),
     B64(<<"ct", EncryptionKey, Txt("a"), 1>>),
     B64(<<"ct", OtherKey, Txt("a"), 1>>)}

\* What the secret resolver may answer a callback with: a failure, no key,
\* a primary key followed by a retired one.
ResolverOutcomes ==
    {[ok |-> FALSE, keys |-> <<>>], [ok |-> TRUE, keys |-> <<>>],
     [ok |-> TRUE, keys |-> <<"kB", "kA">>]}

\* A fresh struct of table t: the column set by the caller, the optional
\* cache and Ptr fields at their zero values.
NewFields(t, hasPC, hasCC, hasPtr, v) ==
    IF t \in EncTables
    THEN LET c == EncColumn(t)
             names == {c} \cup (IF hasPC THEN {c \o "PlaintextCache"} ELSE {})
                          \cup (IF hasCC THEN {c \o "CiphertextCache"} ELSE {})
                          \cup (IF hasPtr THEN {c \o "Ptr"} ELSE {})
         IN  [f \in names |-> IF f = c THEN v
                              ELSE IF f = c \o "Ptr" THEN NilPtr
                              ELSE Blank]
    ELSE [f \in {"code", "long_code"} |-> IF f = "code" THEN v ELSE Blank]

NoRow == [exists |-> FALSE, fields |-> <<>>]

NoLast == [fn |-> "none", table |-> "", column |-> "", acted |-> FALSE,
           up |-> TRUE, enc |-> 0, dec |-> 0, hash |-> 0]

NoPrev == [valid |-> FALSE, in |-> Blank, out |-> Blank]

\* No verification code row written yet.
NoStore == [exists |-> FALSE, data |-> Blank, sig |-> Blank, keys |-> <<>>]

\* withRetries not called: f not invoked, no retry counted by the backoff,
\* no time slept, the context live.
NoRetry ==
    [phase |-> "idle", calls |-> 0, attempt |-> 0, slept |-> 0, ctx |-> "live",
     last |-> [kind |-> "none", e |-> NoErr], err |-> NoErr]

\* The goroutines that may call OpenWithCacher, each on Database objects of its own.
Callers == {"c1", "c2"}

\* A Database as constructed, OpenWithCacher not called on it: no raw SQL
\* connection, db.db and db.statsCloser unset.
NoCall ==
    [pc |-> "idle", rawSQL |-> "none", rawDB |-> "nil", db |-> "unset", statsCloser |-> FALSE,
     rt |-> NoRetry, ret |-> <<>>]

\* OpenWithCacher not called: callbackLock free, no callbacks registered.
NoOpen == [lock |-> "free", regs |-> 0, opens |-> 0, callers |-> [c \in Callers |-> NoCall]]

\* No callback applied to the record yet.
NoRun == [steps |-> 0, start |-> <<>>, first |-> NoLast, res |-> [ok |-> FALSE, keys |-> <<>>],
          metrics |-> 0]

\* The string held by a column ("" when it is no string).
Col(sc, column) == getFieldString(sc, column).val

(***************************************************************************)
(* Initial states and the caller's steps.                                  *)
(***************************************************************************)
NoGrant == [pc |-> "idle", actorPermission |-> 0, toUpdate |-> <<>>, permission |-> 0, err |-> NoErr]
NoSession == [firebaseCookie |-> Blank, flash |-> {}]
NoLogin == [session |-> NoSession, before |-> NoSession, served |-> FALSE,
            hasSession |-> FALSE, bindOk |-> FALSE, cookie |-> Blank, cookieOk |-> FALSE,
            user |-> FALSE, stored |-> FALSE, status |-> 0]

HelpersIdle ==
    /\ hKeys = <<>>
    /\ hData = Blank
    /\ hOut = [fn |-> "none", sig |-> Blank, sigs |-> <<>>, err |-> "none"]
    /\ hStore = NoStore

\* No CompileAndAuthorize call made and no login request served.
HandlersIdle ==
    /\ grant = NoGrant
    /\ login = NoLogin

\* The variables of the cache purging, of withRetries, of OpenWithCacher and
\* of the handlers outside the database package.
OtherVars == <<cacher, deletes, rt, ow, run, grant, login>>

\* No cacher, no withRetries call and no OpenWithCacher call in flight.
NoCacher ==
    /\ cacher = FALSE
    /\ deletes = <<>>

OpenIdle ==
    /\ rt = NoRetry
    /\ ow = NoOpen
    /\ run = NoRun
    /\ HandlersIdle

\* A struct the caller has just built, and the row it may stand for.
Fresh(sc, rw) ==
    \E t \in Tables, hasPC, hasCC, hasPtr \in BOOLEAN, v \in CallerValues, stored \in StoredValues :
       /\ (t \notin EncTables => ~hasPC /\ ~hasCC /\ ~hasPtr /\ stored = Blank)
       /\ sc = [table |-> t, fields |-> NewFields(t, hasPC, hasCC, hasPtr, v), err |-> NoErr]
       /\ rw = IF t \in EncTables /\ stored # Blank
               THEN [exists |-> TRUE, fields |-> [f \in Persisted(t) |-> stored]]
               ELSE NoRow

Init ==
    /\ Fresh(scope, row)
    /\ op = "none"
    /\ pc = 0
    /\ pre = scope
    /\ last = NoLast
    /\ caller = Blank
    /\ prev = NoPrev
    /\ HelpersIdle
    /\ NoCacher
    /\ OpenIdle

\* The caller assigns another value to a column of the struct between two
\* operations.
SetColumn ==
    /\ op = "none"
    /\ \E c \in Persisted(scope.table), v \in CallerValues :
          /\ scope.fields[c] # v
          /\ scope' = [scope EXCEPT !.fields[c] = v]
    /\ pre' = scope'
    /\ last' = NoLast
    /\ prev' = NoPrev
    /\ UNCHANGED <<op, pc, row, caller, hKeys, hData, hOut, hStore>>
    /\ UNCHANGED OtherVars

\* The caller starts db.Create / db.Save / db.Find on the struct: a new scope
\* without error.
BeginOp ==
    /\ op = "none"
    /\ \E kind \in Kinds :
          /\ kind = "query" => row.exists
          /\ kind # "query" => \A c \in Persisted(scope.table) : Depth(scope.fields[c]) < MaxDepth
          /\ op' = kind
    /\ pc' = 1
    /\ scope' = [scope EXCEPT !.err = NoErr]
    /\ pre' = scope'
    /\ last' = NoLast
    /\ caller' = IF scope.table \in EncTables THEN scope.fields[EncColumn(scope.table)] ELSE Blank
    /\ UNCHANGED <<row, prev, hKeys, hData, hOut, hStore>>
    /\ UNCHANGED OtherVars

\* The operation returns to the caller.  A create or update that went
\* through without error is remembered as the preceding write.
EndOp ==
    /\ op # "none"
    /\ pc > Len(Chain(op))
    /\ op' = "none"
    /\ pc' = 0
    /\ pre' = scope
    /\ last' = NoLast
    /\ prev' = IF op \in {"create", "update"} /\ scope.table \in EncTables
                  /\ ~HasError(scope) /\ caller # Blank
               THEN [valid |-> TRUE, in |-> caller, out |-> row.fields[EncColumn(scope.table)]]
               ELSE NoPrev
    /\ UNCHANGED <<scope, row, caller, hKeys, hData, hOut, hStore>>
    /\ UNCHANGED OtherVars

\* The caller takes a zero struct of the same type for the same row (as for
\* db.Find into a new value).
ZeroStruct ==
    /\ op = "none"
    /\ scope' = [scope EXCEPT !.err = NoErr,
                              !.fields = [f \in DOMAIN scope.fields |->
                                             IF IsPtr(scope.fields[f]) THEN NilPtr ELSE Blank]]
    /\ scope' # scope
    /\ pre' = scope'
    /\ last' = NoLast
    /\ caller' = Blank
    /\ prev' = NoPrev
    /\ UNCHANGED <<op, pc, row, hKeys, hData, hOut, hStore>>
    /\ UNCHANGED OtherVars

(***************************************************************************)
(* One action per callback of the chain.                                   *)
(***************************************************************************)
At(fn) == op # "none" /\ pc <= Len(Chain(op)) /\ Chain(op)[pc].fn = fn

\* Whether a callback got past its table and error checks.
Acted(sc, h) == sc.table = h.table /\ ~HasError(sc)

\* A callback h ran with result r: the scope moves on and the step is
\* recorded, with whether the Key Manager was up if it was called.
Step(h, up, r) ==
    /\ scope' = r.scope
    /\ pc' = pc + 1
    /\ pre' = scope
    /\ last' = [fn |-> h.fn, table |-> h.table, column |-> h.column, acted |-> Acted(scope, h),
                up |-> (up \/ r.enc + r.dec = 0), enc |-> r.enc, dec |-> r.dec,
                hash |-> r.hash]

KMSEncryptCallback ==
    /\ At("encrypt")
    /\ \E n \in Nonces, up \in BOOLEAN :
          LET h == Chain(op)[pc]
          IN  Step(h, up, callbackKMSEncrypt(scope, up, n, EncryptionKey, h.table, h.column))
    /\ UNCHANGED <<op, row, caller, prev, hKeys, hData, hOut, hStore>>
    /\ UNCHANGED OtherVars

KMSDecryptCallback ==
    /\ At("decrypt")
    /\ \E up \in BOOLEAN :
          LET h == Chain(op)[pc]
          IN  Step(h, up, callbackKMSDecrypt(scope, up, EncryptionKey, h.table, h.column))
    /\ UNCHANGED <<op, row, caller, prev, hKeys, hData, hOut, hStore>>
    /\ UNCHANGED OtherVars

\* hashFunc resolves the keys at the time of the call.
HMACCallback ==
    /\ At("hmac")
    /\ \E res \in ResolverOutcomes :
          LET h == Chain(op)[pc]
          IN  Step(h, TRUE, callbackHMAC(scope, res, h.table, h.column))
    /\ UNCHANGED <<op, row, caller, prev, hKeys, hData, hOut, hStore>>
    /\ UNCHANGED OtherVars

\* gorm:create / gorm:update: the INSERT or UPDATE of the persisted columns,
\* skipped when the scope has an error; the statement itself may fail.
GormWrite ==
    /\ At("gorm:write")
    /\ \/ /\ HasError(scope)
          /\ Step(Chain(op)[pc], TRUE, Ran(scope, 0, 0, 0))
          /\ UNCHANGED row
       \/ /\ ~HasError(scope)
          /\ Step(Chain(op)[pc], TRUE, Ran(scope, 0, 0, 0))
          /\ row' = [exists |-> TRUE,
                     fields |-> [f \in Persisted(scope.table) |-> scope.fields[f]]]
       \/ /\ ~HasError(scope)
          /\ Step(Chain(op)[pc], TRUE, Ran(Err(scope, "db error"), 0, 0, 0))
          /\ UNCHANGED row
    /\ UNCHANGED <<op, caller, prev, hKeys, hData, hOut, hStore>>
    /\ UNCHANGED OtherVars

\* gorm:query: the SELECT loads the stored columns into the struct, or fails.
GormQuery ==
    /\ At("gorm:query")
    /\ \/ Step(Chain(op)[pc], TRUE,
               Ran([scope EXCEPT !.fields =
                       [f \in DOMAIN scope.fields |->
                           IF f \in DOMAIN row.fields THEN row.fields[f] ELSE scope.fields[f]]],
                   0, 0, 0))
       \/ Step(Chain(op)[pc], TRUE, Ran(Err(scope, "db error"), 0, 0, 0))
    /\ UNCHANGED <<op, row, caller, prev, hKeys, hData, hOut, hStore>>
    /\ UNCHANGED OtherVars

Next ==
    \/ SetColumn
    \/ BeginOp
    \/ EndOp
    \/ ZeroStruct
    \/ KMSEncryptCallback
    \/ KMSDecryptCallback
    \/ HMACCallback
    \/ GormWrite
    \/ GormQuery

Spec == Init /\ [][Next]_vars

(***************************************************************************)
(* The HMAC helpers on their own: inputs drawn from bounded sets, the      *)
(* helpers applied to them, the key set rotated.                           *)
(***************************************************************************)
DataValues == {Blank, Txt("a"), Txt("b")}

NoOut == [fn |-> "none", sig |-> Blank, sigs |-> <<>>, err |-> NoErr]

PipelineIdle ==
    /\ scope = [table |-> "verification_codes",
                fields |-> NewFields("verification_codes", FALSE, FALSE, FALSE, Blank),
                err |-> NoErr]
    /\ row = NoRow
    /\ op = "none"
    /\ pc = 0
    /\ pre = scope
    /\ last = NoLast
    /\ caller = Blank
    /\ prev = NoPrev

InitHMAC ==
    /\ PipelineIdle
    /\ NoCacher
    /\ OpenIdle
    /\ hStore = NoStore
    /\ hKeys \in KeySeqs
    /\ hData \in DataValues
    /\ hOut = NoOut

PipelineVars == <<scope, op, pc, row, pre, last, caller, prev>>

ApplyInitialHMAC ==
    /\ LET r == initialHMAC(hKeys, hData)
       IN  hOut' = [fn |-> "initialHMAC", sig |-> r.sig, sigs |-> <<>>, err |-> r.err]
    /\ UNCHANGED <<hKeys, hData, hStore>>
    /\ UNCHANGED PipelineVars
    /\ UNCHANGED OtherVars

ApplyAllAllowedHMACs ==
    /\ LET r == allAllowedHMACs(hKeys, hData)
       IN  hOut' = [fn |-> "allAllowedHMACs", sig |-> Blank, sigs |-> r.sigs, err |-> r.err]
    /\ UNCHANGED <<hKeys, hData, hStore>>
    /\ UNCHANGED PipelineVars
    /\ UNCHANGED OtherVars

\* A new primary key is put in front of the resolved set.
RotateKey ==
    /\ Len(hKeys) < MaxKeys
    /\ \E k \in HMACKeys : hKeys' = <<k>> \o hKeys
    /\ hOut' = NoOut
    /\ UNCHANGED <<hData, hStore>>
    /\ UNCHANGED PipelineVars
    /\ UNCHANGED OtherVars

\* The oldest key is dropped from the resolved set.
RetireKey ==
    /\ Len(hKeys) >= 1
    /\ hKeys' = SubSeq(hKeys, 1, Len(hKeys) - 1)
    /\ hOut' = NoOut
    /\ UNCHANGED <<hData, hStore>>
    /\ UNCHANGED PipelineVars
    /\ UNCHANGED OtherVars

NewData ==
    /\ \E d \in DataValues : d # hData /\ hData' = d
    /\ hOut' = NoOut
    /\ UNCHANGED <<hKeys, hStore>>
    /\ UNCHANGED PipelineVars
    /\ UNCHANGED OtherVars

\* A verification code row is written with the signature initialHMAC has
\* just returned for it (callbackHMAC on create).
StoreCode ==
    /\ hOut.fn = "initialHMAC"
    /\ hOut.err = NoErr
    /\ hStore' = [exists |-> TRUE, data |-> hData, sig |-> hOut.sig, keys |-> hKeys]
    /\ hStore' # hStore
    /\ UNCHANGED <<hKeys, hData, hOut>>
    /\ UNCHANGED PipelineVars
    /\ UNCHANGED OtherVars

NextHMAC ==
    \/ ApplyInitialHMAC
    \/ ApplyAllAllowedHMACs
    \/ RotateKey
    \/ RetireKey
    \/ NewData
    \/ StoreCode

SpecHMAC == InitHMAC /\ [][NextHMAC]_vars

(***************************************************************************)
(* Shorthands for the claims: what the last callback was and what it saw.  *)
(***************************************************************************)
\* The named callback just ran on a record of its table with no earlier error.
JustRan(fn) == last.fn = fn /\ last.acted

\* The target column, before and after the last callback.
Before == Col(pre, last.column)
After == Col(scope, last.column)

\* The cache columns as the last callback found them.
PlainCacheBefore == getFieldString(pre, last.column \o "PlaintextCache")
CipherCacheBefore == getFieldString(pre, last.column \o "CiphertextCache")
BothCaches == PlainCacheBefore.ok /\ CipherCacheBefore.ok

\* The encrypt callback ran on a non-empty plaintext equal to the cached one.
EncryptHit ==
    /\ JustRan("encrypt")
    /\ Before # Blank
    /\ BothCaches
    /\ Before = PlainCacheBefore.val
    /\ CipherCacheBefore.val # Blank

\* The decrypt callback ran on a non-blank ciphertext equal to the cached one.
DecryptHit ==
    /\ JustRan("decrypt")
    /\ Before # Blank
    /\ BothCaches
    /\ Before = CipherCacheBefore.val

\* What the Key Manager, when up, makes of a stored string.
Opened(s) == Decrypt(TRUE, EncryptionKey, DecodeString(s).b)

(***************************************************************************)
(* Claims.                                                                 *)
(***************************************************************************)

\* C1: when callbackKMSEncrypt runs on a non-empty plaintext that equals the
\* cached plaintext, with both cache columns populated, Key Manager Encrypt
\* is not invoked during that callback.
C1_CacheHitSkipsEncrypt == EncryptHit => last.enc = 0

\* C2: for a column with both cache columns, a write that follows a
\* successful write (encrypt, then decrypt) with the same plaintext leaves
\* the real column, after its encrypt callback, holding the ciphertext the
\* preceding write stored.
C2_SameCiphertextOnRewrite ==
    (/\ JustRan("encrypt")
     /\ ~HasError(scope)
     /\ BothCaches
     /\ prev.valid
     /\ Before = prev.in)
    => After = prev.out

\* C3: when callbackKMSDecrypt runs on a non-blank ciphertext that equals the
\* cached ciphertext, with both cache columns populated, Key Manager Decrypt
\* is not invoked and the callback succeeds with the real column set to the
\* cached plaintext, whether or not the Key Manager is available.
C3_CacheHitSkipsDecrypt ==
    DecryptHit =>
        /\ last.dec = 0
        /\ ~HasError(scope)
        /\ After = PlainCacheBefore.val

\* C4: when Key Manager Encrypt errors during callbackKMSEncrypt, the scope
\* is in the error state and no column of the record differs from its value
\* before the callback, in every cache state.
C4_EncryptErrorLeavesRecord ==
    (JustRan("encrypt") /\ last.enc > 0 /\ ~last.up)
    => (HasError(scope) /\ scope.fields = pre.fields)

\* C5: when callbackKMSDecrypt runs on a non-blank ciphertext and the base64
\* decoding fails or Key Manager Decrypt errors, the scope is in the error
\* state; the callback never ends without error with the real column blank
\* or still holding the ciphertext.
C5_DecryptFailureAborts ==
    (JustRan("decrypt") /\ Before # Blank)
    => /\ (~DecodeString(Before).ok => HasError(scope))
       /\ (~Decrypt(last.up, EncryptionKey, DecodeString(Before).b).ok => HasError(scope))
       /\ (~HasError(scope) => After # Blank /\ After # Before)

C5_Witness ==
    /\ JustRan("decrypt")
    /\ Before # Blank
    /\ DecodeString(Before).ok
    /\ last.dec = 1
    /\ ~last.up
    /\ HasError(scope)

\* C6: when the target column holds the empty string, callbackKMSEncrypt,
\* callbackKMSDecrypt and callbackHMAC call neither the Key Manager nor the
\* hash function, set no error and leave every column unchanged.
C6_NoOpOnEmpty ==
    (/\ last.fn \in {"encrypt", "decrypt", "hmac"}
     /\ last.table = pre.table
     /\ getFieldString(pre, last.column).ok
     /\ Before = Blank)
    => /\ last.enc = 0 /\ last.dec = 0 /\ last.hash = 0
       /\ scope = pre

C6_Witness ==
    /\ JustRan("encrypt")
    /\ getFieldString(pre, last.column).ok
    /\ Before = Blank
    /\ scope = pre

\* C7: callbackKMSEncrypt followed by callbackKMSDecrypt on a record whose
\* real column holds a non-empty plaintext p, with the Key Manager answering
\* both calls, ends without error and with the real column equal to p,
\* whatever the cache columns held.
C7_PipelineRoundTrip ==
    (/\ JustRan("decrypt")
     /\ op \in {"create", "update"}
     /\ caller # Blank
     /\ last.up)
    => (~HasError(scope) /\ After = caller)

C7_Witness ==
    /\ JustRan("decrypt")
    /\ op \in {"create", "update"}
    /\ caller # Blank
    /\ last.up
    /\ BothCaches
    /\ PlainCacheBefore.val # Blank
    /\ After = caller

\* C8: for each encrypted table, the row written after the before-create or
\* before-update callback succeeded on a non-empty value holds a ciphertext
\* of the caller's plaintext and never that plaintext; after the after-create,
\* after-update or after-query callback succeeded the real column holds the
\* plaintext of what was stored.
C8_EncryptedBeforeCommit ==
    /\ (/\ last.fn = "gorm:write"
        /\ ~HasError(scope)
        /\ scope.table \in EncTables
        /\ caller # Blank)
       => LET stored == row.fields[EncColumn(scope.table)]
          IN  /\ stored # caller
              /\ Opened(stored).ok
              /\ Opened(stored).p = caller
    /\ (JustRan("decrypt") /\ ~HasError(scope) /\ Before # Blank)
       => /\ Opened(Before).ok
          /\ After = Opened(Before).p
          /\ (op \in {"create", "update"} => After = caller)

C8_Witness ==
    /\ last.fn = "gorm:write"
    /\ ~HasError(scope)
    /\ scope.table \in EncTables
    /\ caller # Blank
    /\ row.exists
    /\ row.fields[EncColumn(scope.table)] = Col(scope, EncColumn(scope.table))

\* C9: for a non-empty key sequence, initialHMAC returns without error the
\* URL-safe base64 HMAC of the data under keys[0]; the result is the same for
\* every key sequence with that first key.
C9_SignUsesPrimaryKey ==
    (hOut.fn = "initialHMAC" /\ Len(hKeys) >= 1)
    => /\ hOut.err = NoErr
       /\ hOut.sig = URL64(HMAC512(hKeys[1], hData))
       /\ \A ks \in KeySeqs :
             (Len(ks) >= 1 /\ ks[1] = hKeys[1]) => initialHMAC(ks, hData).sig = hOut.sig

C9_Witness ==
    /\ hOut.fn = "initialHMAC"
    /\ Len(hKeys) >= 2
    /\ hKeys[1] # hKeys[2]
    /\ hOut.err = NoErr
    /\ hOut.sig = URL64(HMAC512(hKeys[1], hData))

\* C10: allAllowedHMACs returns exactly one signature per key, the i-th being
\* the signature of the data under the i-th key; its first element equals
\* the result of initialHMAC on the same inputs.
C10_AllSignaturesInKeyOrder ==
    (hOut.fn = "allAllowedHMACs")
    => /\ hOut.err = NoErr
       /\ Len(hOut.sigs) = Len(hKeys)
       /\ \A i \in 1..Len(hKeys) : hOut.sigs[i] = URL64(HMAC512(hKeys[i], hData))
       /\ (Len(hKeys) >= 1 => hOut.sigs[1] = initialHMAC(hKeys, hData).sig)

C10_Witness ==
    /\ hOut.fn = "allAllowedHMACs"
    /\ Len(hKeys) >= 2
    /\ hKeys[1] # hKeys[2]
    /\ Len(hOut.sigs) = Len(hKeys)

\* The elements of a sequence.
Range(q) == {q[i] : i \in 1..Len(q)}

\* C11: rotation correctness.  A row signed by initialHMAC under an earlier
\* key set is found among the signatures allAllowedHMACs returns for its data
\* for as long as the key that signed it stays in the resolved set, and a row
\* written under the current key set carries the signature of the current
\* primary key, which is the first signature of that list.
C11_RotationCorrectness ==
    hStore.exists
    => /\ (hOut.fn = "allAllowedHMACs" /\ hData = hStore.data /\ hStore.keys[1] \in Range(hKeys))
          => hStore.sig \in Range(hOut.sigs)
       /\ (hStore.keys = hKeys)
          => /\ hStore.sig = URL64(HMAC512(hKeys[1], hStore.data))
             /\ hStore.sig = allAllowedHMACs(hKeys, hStore.data).sigs[1]

\* A row signed under [k_old] alone is looked up after the rotation to
\* [k_new, k_old] and matches the second signature of the list.
C11_Witness ==
    /\ hStore.exists
    /\ Len(hStore.keys) = 1
    /\ Len(hKeys) = 2
    /\ hKeys[2] = hStore.keys[1]
    /\ hKeys[1] # hKeys[2]
    /\ hOut.fn = "allAllowedHMACs"
    /\ hData = hStore.data
    /\ hStore.sig = hOut.sigs[2]
    /\ hStore.sig # hOut.sigs[1]

\* C12: an empty key set is never used silently: applied to zero keys, either
\* helper returns an error and neither a signature nor a signature list.
C12_EmptyKeySetIsError ==
    (hOut.fn \in {"initialHMAC", "allAllowedHMACs"} /\ Len(hKeys) = 0)
    => /\ hOut.err # NoErr
       /\ hOut.sig = Blank
       /\ hOut.sigs = <<>>

(***************************************************************************)
(* Cache purging: callbackPurgeCache and the purge_cache callbacks that    *)
(* OpenWithCacher registers after gorm:update and gorm:delete.             *)
(***************************************************************************)
MaxColumns == 2    \* longest column list callbackPurgeCache is applied to

\* Values of a struct field as field.Field.Interface() returns them.
Uint(n) == <<"uint", n>>
Str(x) == <<"string", x>>
NilInterface == <<"interface", "nil">>
Unexported == <<"unexported">>

\* reflect.Value.CanInterface: false for fields reached through unexported
\* struct fields only.
CanInterface(v) == v # Unexported

\* fmt.Sprintf("%v", val)
Sprintf(val) == IF val[1] = "uint" THEN ToString(val[2]) ELSE val[2]

RECURSIVE Join(_, _)
\* strings.Join(keys, sep)
Join(keys, sep) ==
    IF Len(keys) = 0 THEN ""
    ELSE IF Len(keys) = 1 THEN keys[1]
    ELSE keys[1] \o sep \o Join(Tail(keys), sep)

RECURSIVE callbackPurgeCacheReversed(_, _, _, _)
\* Variant of the column loop that collects the columns' texts last column first.
callbackPurgeCacheReversed(sc, table, columns, keys) ==
    IF Len(columns) = 0
    THEN [scope |-> sc, keys |-> keys, done |-> TRUE]
    ELSE LET column == Head(columns)
         IN  IF column \notin DOMAIN sc.fields
             THEN [scope |-> Err(sc, "table has no column"), keys |-> keys, done |-> FALSE]
             ELSE IF ~CanInterface(sc.fields[column])
             THEN [scope |-> Err(sc, "cannot interface"), keys |-> keys, done |-> FALSE]
             ELSE IF sc.fields[column] = NilInterface
             THEN [scope |-> sc, keys |-> keys, done |-> FALSE]
             ELSE callbackPurgeCacheReversed(sc, table, Tail(columns),
                                             <<Sprintf(sc.fields[column])>> \o keys)

RECURSIVE callbackPurgeCacheColumns(_, _, _, _)
\* The loop over the columns: keys holds the texts of the columns read so
\* far; done is FALSE when the loop returned from the callback.
callbackPurgeCacheColumns(sc, table, columns, keys) ==
    IF Len(columns) = 0
    THEN [scope |-> sc, keys |-> keys, done |-> TRUE]
    ELSE LET column == Head(columns)
         IN  IF column \notin DOMAIN sc.fields
             THEN [scope |-> Err(sc, "table has no column"), keys |-> keys, done |-> FALSE]
             ELSE IF ~CanInterface(sc.fields[column])
             THEN [scope |-> Err(sc, "cannot interface"), keys |-> keys, done |-> FALSE]
             ELSE IF sc.fields[column] = NilInterface
             THEN [scope |-> sc, keys |-> keys, done |-> FALSE]
             ELSE callbackPurgeCacheColumns(sc, table, Tail(columns),
                                            Append(keys, Sprintf(sc.fields[column])))

\* Variant of callbackPurgeCache that fails the scope when cacher.Delete fails.
callbackPurgeCacheFatal(sc, delOk, namespace, table, columns) ==
    IF sc.table # table THEN [scope |-> sc, calls |-> <<>>]
    ELSE IF HasError(sc) THEN [scope |-> sc, calls |-> <<>>]
    ELSE LET r == callbackPurgeCacheColumns(sc, table, columns, <<>>)
             key == [namespace |-> namespace, key |-> Join(r.keys, "|")]
         IN  IF ~r.done THEN [scope |-> r.scope, calls |-> <<>>]
             ELSE [scope |-> IF delOk THEN r.scope ELSE Err(r.scope, "failed to delete cache key"),
                   calls |-> <<[key |-> key, ok |-> delOk]>>]

\* Variant of callbackPurgeCache that does not look at the scope's table.
callbackPurgeCacheAnyTable(sc, delOk, namespace, table, columns) ==
    IF HasError(sc) THEN [scope |-> sc, calls |-> <<>>]
    ELSE LET r == callbackPurgeCacheColumns(sc, table, columns, <<>>)
             key == [namespace |-> namespace, key |-> Join(r.keys, "|")]
         IN  IF ~r.done THEN [scope |-> r.scope, calls |-> <<>>]
             ELSE [scope |-> r.scope, calls |-> <<[key |-> key, ok |-> delOk]>>]

\* Variant of callbackPurgeCache that does not look at the scope's error.
callbackPurgeCacheOnError(sc, delOk, namespace, table, columns) ==
    IF sc.table # table THEN [scope |-> sc, calls |-> <<>>]
    ELSE LET r == callbackPurgeCacheColumns(sc, table, columns, <<>>)
             key == [namespace |-> namespace, key |-> Join(r.keys, "|")]
         IN  IF ~r.done THEN [scope |-> r.scope, calls |-> <<>>]
             ELSE [scope |-> r.scope, calls |-> <<[key |-> key, ok |-> delOk]>>]

\* callbackPurgeCache on a scope: the scope as it leaves it and the
\* cacher.Delete calls it made (delOk: whether cacher.Delete succeeds).
callbackPurgeCache(sc, delOk, namespace, table, columns) ==
    IF sc.table # table THEN [scope |-> sc, calls |-> <<>>]
    ELSE IF HasError(sc) THEN [scope |-> sc, calls |-> <<>>]
    ELSE LET r == callbackPurgeCacheColumns(sc, table, columns, <<>>)
             key == [namespace |-> namespace, key |-> Join(r.keys, "|")]
         IN  IF ~r.done THEN [scope |-> r.scope, calls |-> <<>>]
             ELSE [scope |-> r.scope, calls |-> <<[key |-> key, ok |-> delOk]>>]

\* The purge_cache callbacks, in registration order.
PurgeHook(namespace, table, columns) ==
    [fn |-> "callbackPurgeCache", namespace |-> namespace, table |-> table, columns |-> columns]

PurgeHooks ==
    << PurgeHook("authorized_apps:by_id", "authorized_apps", <<"id">>),
       PurgeHook("realms:by_id", "realms", <<"id">>),
       PurgeHook("stats:realm:key_server_enabled", "key_server_stats", <<"realm_id">>),
       PurgeHook("users:by_id", "users", <<"id">>),
       PurgeHook("users:by_email", "users", <<"email">>) >>

GormStep(fn) == [fn |-> fn, namespace |-> "", table |-> "", columns |-> <<>>]

\* The callbacks of an operation that touch the cache: the purge callbacks
\* follow gorm:update and gorm:delete when a cacher was given, never gorm:create.
PurgeChain(kind, withCacher) ==
    IF kind = "create" THEN <<GormStep("gorm:create")>>
    ELSE <<GormStep("gorm:" \o kind)>> \o (IF withCacher THEN PurgeHooks ELSE <<>>)

PurgeKinds == {"create", "update", "delete"}
PurgeTables == {"authorized_apps", "realms", "key_server_stats", "users", "sms_configs"}

\* The identifying columns of a row of a table with purge rules.
PurgeRow(t, id, email) ==
    CASE t = "users" -> [id |-> Uint(id), email |-> Str(email)]
      [] t = "key_server_stats" -> [realm_id |-> Uint(id)]
      [] OTHER -> [id |-> Uint(id)]

Ids == {1, 42}
Emails == {"a@x", "b@x"}

\* The records the caller hands to an operation.
PurgeScopes ==
    {[table |-> t, fields |-> PurgeRow(t, id, email), err |-> NoErr] :
        t \in PurgeTables, id \in Ids, email \in Emails}

\* Records callbackPurgeCache may be applied to: columns absent, nil or set.
ColumnNames == {"id", "email"}
ColumnValues == {Uint(42), Str("a@x"), NilInterface}
LooseScopes ==
    {[table |-> t, fields |-> f, err |-> e] :
        t \in {"users", "realms"},
        f \in UNION {[cs -> ColumnValues] : cs \in SUBSET ColumnNames},
        e \in {NoErr, "db"}}
ColumnSeqs == UNION {[1..n -> ColumnNames] : n \in 1..MaxColumns}

\* History: the callback h just run, having made n cacher.Delete calls.
Called(h, n) ==
    [fn |-> h.fn, namespace |-> h.namespace, table |-> h.table, columns |-> h.columns,
     calls |-> n]

NoHook == Called(GormStep("none"), 0)

PurgeIdle ==
    /\ row = NoRow
    /\ caller = Blank
    /\ prev = NoPrev
    /\ HelpersIdle
    /\ OpenIdle

PurgePinned == <<row, caller, prev, hKeys, hData, hOut, hStore, rt, ow, run, grant, login>>

InitPurge ==
    /\ PurgeIdle
    /\ scope \in PurgeScopes
    /\ pre = scope
    /\ op = "none"
    /\ pc = 0
    /\ last = NoHook
    /\ cacher \in BOOLEAN
    /\ deletes = <<>>

\* The caller starts a create, an update or a delete of its record.
PurgeBegin ==
    /\ op = "none"
    /\ \E kind \in PurgeKinds : op' = kind
    /\ pc' = 1
    /\ UNCHANGED <<scope, pre, last, cacher, deletes>>
    /\ UNCHANGED PurgePinned

PurgeAt(fn) ==
    /\ op \in PurgeKinds
    /\ pc <= Len(PurgeChain(op, cacher))
    /\ PurgeChain(op, cacher)[pc].fn = fn

\* gorm:create, gorm:update, gorm:delete: the statement runs or fails.
PurgeGormWrite ==
    /\ op \in PurgeKinds
    /\ PurgeAt("gorm:" \o op)
    /\ \E ok \in BOOLEAN : scope' = IF ok THEN scope ELSE Err(scope, "db")
    /\ pc' = pc + 1
    /\ pre' = scope
    /\ last' = Called(PurgeChain(op, cacher)[pc], 0)
    /\ UNCHANGED <<op, cacher, deletes>>
    /\ UNCHANGED PurgePinned

\* The next purge_cache callback of the chain runs.
PurgeCacheCallback ==
    /\ PurgeAt("callbackPurgeCache")
    /\ \E delOk \in BOOLEAN :
          LET h == PurgeChain(op, cacher)[pc]
              r == callbackPurgeCache(scope, delOk, h.namespace, h.table, h.columns)
          IN  /\ scope' = r.scope
              /\ deletes' = deletes \o r.calls
              /\ last' = Called(h, Len(r.calls))
    /\ pc' = pc + 1
    /\ pre' = scope
    /\ UNCHANGED <<op, cacher>>
    /\ UNCHANGED PurgePinned

\* callbackPurgeCache applied on its own to a drawn record and column list.
ApplyPurgeCache ==
    /\ op = "none"
    /\ last = NoHook
    /\ cacher
    /\ \E sc \in LooseScopes, delOk \in BOOLEAN, table \in {"users", "realms"},
          columns \in ColumnSeqs :
          LET r == callbackPurgeCache(sc, delOk, "ns", table, columns)
          IN  /\ pre' = sc
              /\ scope' = r.scope
              /\ deletes' = r.calls
              /\ last' = Called(PurgeHook("ns", table, columns), Len(r.calls))
    /\ op' = "apply"
    /\ pc' = 0
    /\ UNCHANGED cacher
    /\ UNCHANGED PurgePinned

PurgeFinished ==
    \/ op = "apply"
    \/ op \in PurgeKinds /\ pc > Len(PurgeChain(op, cacher))

\* The operation has returned; the caller takes up another record.
PurgeEnd ==
    /\ PurgeFinished
    /\ op' = "none"
    /\ pc' = 0
    /\ \E sc \in PurgeScopes : scope' = sc /\ pre' = sc
    /\ last' = NoHook
    /\ deletes' = <<>>
    /\ UNCHANGED cacher
    /\ UNCHANGED PurgePinned

NextPurge ==
    \/ PurgeBegin
    \/ PurgeGormWrite
    \/ PurgeCacheCallback
    \/ ApplyPurgeCache
    \/ PurgeEnd

SpecPurge == InitPurge /\ [][NextPurge]_vars

(***************************************************************************)
(* Shorthands for the cache purging claims.                                *)
(***************************************************************************)
\* The namespaces the rules of a table name.
ExpectedNamespaces(t) ==
    CASE t = "authorized_apps" -> {"authorized_apps:by_id"}
      [] t = "realms" -> {"realms:by_id"}
      [] t = "key_server_stats" -> {"stats:realm:key_server_enabled"}
      [] t = "users" -> {"users:by_id", "users:by_email"}
      [] OTHER -> {}

DeletedNamespaces == {deletes[i].key.namespace : i \in 1..Len(deletes)}

\* The last callback was callbackPurgeCache on a scope of its table without error.
PurgeRan == last.fn = "callbackPurgeCache" /\ pre.table = last.table /\ ~HasError(pre)

LastDelete == deletes[Len(deletes)]

\* C13: invalidation scoping.  With a cacher, an update or delete only ever
\* deletes cache keys of the namespaces declared for the record's table, and
\* when it has finished without error it has made exactly one Delete per rule
\* of that table; updating the realm with id 42 deletes realms:by_id / "42"
\* once.  A create makes no cache Delete at all.
C13_InvalidationScoping ==
    /\ (op \in {"update", "delete"} /\ cacher)
       => /\ DeletedNamespaces \subseteq ExpectedNamespaces(scope.table)
          /\ (PurgeFinished /\ ~HasError(scope))
             => /\ DeletedNamespaces = ExpectedNamespaces(scope.table)
                /\ Len(deletes) = Cardinality(ExpectedNamespaces(scope.table))
                /\ (scope.table = "realms" /\ scope.fields["id"] = Uint(42))
                   => deletes[1].key = [namespace |-> "realms:by_id", key |-> "42"]
    /\ (op = "create") => deletes = <<>>

C13_Witness ==
    /\ op = "update"
    /\ cacher
    /\ PurgeFinished
    /\ ~HasError(scope)
    /\ scope.table = "users"
    /\ Len(deletes) = 2
    /\ DeletedNamespaces = {"users:by_id", "users:by_email"}

\* C14: the key callbackPurgeCache deletes has the rule's namespace, and its
\* key is the text of the rule's columns in declared order joined with "|":
\* one column gives that column's text alone, two columns give
\* text1|text2.
C14_CompositeKey ==
    (PurgeRan /\ last.calls = 1)
    => LET texts == [i \in 1..Len(last.columns) |-> Sprintf(pre.fields[last.columns[i]])]
       IN  /\ LastDelete.key.namespace = last.namespace
           /\ LastDelete.key.key = Join(texts, "|")
           /\ (Len(texts) = 1) => LastDelete.key.key = texts[1]
           /\ (Len(texts) = 2) => LastDelete.key.key = texts[1] \o "|" \o texts[2]

C14_Witness ==
    /\ PurgeRan
    /\ last.calls = 1
    /\ last.columns = <<"id", "email">>
    /\ LastDelete.key = [namespace |-> last.namespace, key |-> "42|a@x"]

\* C15: a missing identifying column is a hard error: when callbackPurgeCache
\* runs on its table and a configured column is absent from the record or is
\* nil, the scope ends in the error state; the callback never returns having
\* neither called cacher.Delete nor set an error.
C15_MissingColumnIsError ==
    PurgeRan
    => /\ (\E i \in 1..Len(last.columns) :
              \/ last.columns[i] \notin DOMAIN pre.fields
              \/ pre.fields[last.columns[i]] = NilInterface)
          => HasError(scope)
       /\ (last.calls = 1 \/ HasError(scope))

MaxRetries == 30   \* retry.WithMaxRetries(30, b)
Delay == 1         \* retry.NewConstant(1 * time.Second), in seconds

\* What f may return: nil, an error, or an error marked retry.RetryableError.
Nil == [kind |-> "nil", e |-> NoErr]
PlainError(e) == [kind |-> "error", e |-> e]
RetryableError(e) == [kind |-> "retryable", e |-> e]
Errors == {"e1", "e2"}
Outcomes == {Nil} \cup {PlainError(e) : e \in Errors} \cup {RetryableError(e) : e \in Errors}
\* errors.As(err, &rerr)
IsRetryable(out) == out.kind = "retryable"

\* withRetries entered: the backoff built, retry.Do at the top of its loop.
retryStart == [NoRetry EXCEPT !.phase = "loop"]

\* Variant of retryDo in which every error of f leads to another attempt.
retryDoRetryAll(r, out) ==
    LET c == [r EXCEPT !.calls = r.calls + 1, !.last = out]
    IN  IF out = Nil THEN [c EXCEPT !.phase = "returned", !.err = NoErr]
        ELSE IF r.attempt >= MaxRetries THEN [c EXCEPT !.phase = "returned", !.err = out.e]
        ELSE [c EXCEPT !.phase = "sleep", !.attempt = r.attempt + 1]

\* One pass of the loop of retry.Do with the context live: f is invoked and
\* returns out.  nil and errors not marked retryable are returned at once; on
\* a retryable error the backoff is asked: it stops once it has counted
\* MaxRetries retries (the wrapped error is returned), else it counts one more
\* and the loop sleeps.
retryDo(r, out) ==
    LET c == [r EXCEPT !.calls = r.calls + 1, !.last = out]
    IN  IF out = Nil THEN [c EXCEPT !.phase = "returned", !.err = NoErr]
        ELSE IF ~IsRetryable(out) THEN [c EXCEPT !.phase = "returned", !.err = out.e]
        ELSE IF r.attempt >= MaxRetries THEN [c EXCEPT !.phase = "returned", !.err = out.e]
        ELSE [c EXCEPT !.phase = "sleep", !.attempt = r.attempt + 1]

\* The timer of the sleep fires: the loop goes round.
retryTimer(r) == [r EXCEPT !.phase = "loop", !.slept = r.slept + Delay]

\* The context is found done, at the top of the loop or during the sleep.
retryCtxDone(r) == [r EXCEPT !.phase = "returned", !.err = "context canceled"]

RetryIdle ==
    /\ PipelineIdle
    /\ HelpersIdle
    /\ NoCacher
    /\ ow = NoOpen
    /\ run = NoRun
    /\ HandlersIdle

RetryPinned == <<scope, op, pc, row, pre, last, caller, prev, hKeys, hData, hOut, hStore,
                 cacher, deletes, ow, run, grant, login>>

InitRetry ==
    /\ RetryIdle
    /\ rt = NoRetry

\* withRetries is called.
RetryBegin ==
    /\ rt.phase \in {"idle", "returned"}
    /\ rt' = retryStart
    /\ UNCHANGED RetryPinned

\* f is invoked and returns.
RetryCall ==
    /\ rt.phase = "loop"
    /\ rt.ctx = "live"
    /\ \E out \in Outcomes : rt' = retryDo(rt, out)
    /\ UNCHANGED RetryPinned

RetrySleepOver ==
    /\ rt.phase = "sleep"
    /\ rt' = retryTimer(rt)
    /\ UNCHANGED RetryPinned

\* The caller's context is cancelled while withRetries runs.
RetryCancel ==
    /\ rt.phase \in {"loop", "sleep"}
    /\ rt.ctx = "live"
    /\ rt' = [rt EXCEPT !.ctx = "done"]
    /\ UNCHANGED RetryPinned

RetryCtxDone ==
    /\ rt.phase \in {"loop", "sleep"}
    /\ rt.ctx = "done"
    /\ rt' = retryCtxDone(rt)
    /\ UNCHANGED RetryPinned

NextRetry ==
    \/ RetryBegin
    \/ RetryCall
    \/ RetrySleepOver
    \/ RetryCancel
    \/ RetryCtxDone

SpecRetry == InitRetry /\ [][NextRetry]_vars

\* C17: withRetries invokes its operation at most 30 times, with a delay of
\* one second between two invocations.
C17_AtMostThirtyInvocations ==
    /\ rt.calls <= 30
    /\ (rt.phase = "returned" /\ rt.ctx = "live") => rt.slept = (rt.calls - 1) * 1

\* C18: an error that f did not mark retryable is returned at once: f is not
\* invoked again and that very error is the result; f is invoked another
\* time only after errors marked retryable, so a first call failing with an
\* unmarked error is the only call.
C18_NonRetryableAborts ==
    /\ (rt.last.kind = "error")
       => /\ rt.phase = "returned"
          /\ rt.err = rt.last.e
          /\ rt.calls = rt.attempt + 1
          /\ (rt.attempt = 0 => rt.calls = 1)
    /\ (rt.phase \in {"loop", "sleep"} /\ rt.calls >= 1) => IsRetryable(rt.last)

C18_Witness ==
    /\ rt.phase = "returned"
    /\ rt.last = PlainError("e1")
    /\ rt.calls = 1
    /\ rt.err = "e1"

(***************************************************************************)
(* OpenWithCacher: the calls of the process, step by step, and the         *)
(* package-level callbackLock around the callback registration.            *)
(***************************************************************************)
MaxOpens == 3      \* OpenWithCacher calls started in the process

\* fmt.Errorf(msg + ": %w", e)
Wrap(msg, e) == <<msg, e>>

\* What the functions handed to withRetries return: nil or a retryable error.
OpenOutcomes == {Nil} \cup {RetryableError(e) : e \in Errors}

Call(c) == ow.callers[c]
SetCall(c, r) == [ow EXCEPT !.callers[c] = r]

OpenPinned == <<scope, op, pc, row, pre, last, caller, prev, hKeys, hData, hOut, hStore,
                cacher, deletes, rt, run, grant, login>>

InitOpen ==
    /\ PipelineIdle
    /\ HelpersIdle
    /\ NoCacher
    /\ rt = NoRetry
    /\ ow = NoOpen
    /\ run = NoRun
    /\ HandlersIdle

\* A goroutine calls OpenWithCacher on a Database it has constructed.
OpenBegin(c) ==
    /\ Call(c).pc \in {"idle", "returned"}
    /\ ow.opens < MaxOpens
    /\ ow' = [ow EXCEPT !.callers[c] = [NoCall EXCEPT !.pc = "sqlopen"],
                        !.opens = ow.opens + 1]
    /\ UNCHANGED OpenPinned

\* sql.Open: the connection, or "failed to open sql connection".
OpenSQL(c) ==
    /\ Call(c).pc = "sqlopen"
    /\ \/ ow' = SetCall(c, [Call(c) EXCEPT !.pc = "ping", !.rawSQL = "open",
                                           !.rt = retryStart])
       \/ \E e \in Errors :
             ow' = SetCall(c, [Call(c) EXCEPT !.pc = "returned",
                                              !.ret = Wrap("failed to open sql connection", e)])
    /\ UNCHANGED OpenPinned

\* One invocation of the function handed to withRetries: rawSQL.Ping() or
\* gorm.Open, which sets rawDB when it succeeds.
OpenRetryCall(c) ==
    /\ Call(c).pc \in {"ping", "gorm"}
    /\ Call(c).rt.phase = "loop"
    /\ \E out \in OpenOutcomes :
          ow' = SetCall(c, [Call(c) EXCEPT
                               !.rt = retryDo(Call(c).rt, out),
                               !.rawDB = IF Call(c).pc = "gorm" /\ out = Nil THEN "d" ELSE @])
    /\ UNCHANGED OpenPinned

OpenRetrySleepOver(c) ==
    /\ Call(c).pc \in {"ping", "gorm"}
    /\ Call(c).rt.phase = "sleep"
    /\ ow' = SetCall(c, [Call(c) EXCEPT !.rt = retryTimer(Call(c).rt)])
    /\ UNCHANGED OpenPinned

\* Variant of OpenPinged that returns the error without closing the raw
\* connection.
OpenPingedLeak(c) ==
    /\ Call(c).pc = "ping"
    /\ Call(c).rt.phase = "returned"
    /\ ow' = SetCall(c,
                IF Call(c).rt.err # NoErr
                THEN [Call(c) EXCEPT !.pc = "returned",
                                     !.ret = Wrap("failed to create sql connection", Call(c).rt.err)]
                ELSE [Call(c) EXCEPT !.pc = "gorm", !.statsCloser = TRUE, !.rt = retryStart])
    /\ UNCHANGED OpenPinned

\* withRetries of the ping has returned: on an error the raw connection is
\* closed and the error returned wrapped; else the stats recorder is set up.
\* (The context of the startup is taken as never cancelled, so withRetries
\* returns nil or the error of its last attempt.)
OpenPinged(c) ==
    /\ Call(c).pc = "ping"
    /\ Call(c).rt.phase = "returned"
    /\ ow' = SetCall(c,
                IF Call(c).rt.err # NoErr
                THEN [Call(c) EXCEPT !.pc = "returned", !.rawSQL = "closed",
                                     !.ret = Wrap("failed to create sql connection", Call(c).rt.err)]
                ELSE [Call(c) EXCEPT !.pc = "gorm", !.statsCloser = TRUE, !.rt = retryStart])
    /\ UNCHANGED OpenPinned

\* withRetries of gorm.Open has returned.
OpenGormOpened(c) ==
    /\ Call(c).pc = "gorm"
    /\ Call(c).rt.phase = "returned"
    /\ ow' = SetCall(c,
                IF Call(c).rt.err # NoErr
                THEN [Call(c) EXCEPT !.pc = "returned", !.rawSQL = "closed",
                                     !.ret = Wrap("failed to initialize gorm", Call(c).rt.err)]
                ELSE IF Call(c).rawDB = "nil"
                THEN [Call(c) EXCEPT !.pc = "returned", !.rawSQL = "closed",
                                     !.ret = Wrap("failed to initialize gorm", NoErr)]
                ELSE [Call(c) EXCEPT !.pc = "logger"])
    /\ UNCHANGED OpenPinned

\* NewGormZapLogger: the logger, or "failed to configure logger" (the raw
\* connection is not closed on this return).
OpenLogger(c) ==
    /\ Call(c).pc = "logger"
    /\ \/ ow' = SetCall(c, [Call(c) EXCEPT !.pc = "lock"])
       \/ \E e \in Errors :
             ow' = SetCall(c, [Call(c) EXCEPT !.pc = "returned",
                                              !.ret = Wrap("failed to configure logger", e)])
    /\ UNCHANGED OpenPinned

\* callbackLock.Lock()
OpenLock(c) ==
    /\ Call(c).pc = "lock"
    /\ ow.lock = "free"
    /\ ow' = [ow EXCEPT !.lock = c, !.callers[c].pc = "register"]
    /\ UNCHANGED OpenPinned

\* The callbacks are registered on rawDB.
OpenRegister(c) ==
    /\ Call(c).pc = "register"
    /\ ow' = [ow EXCEPT !.regs = ow.regs + 1, !.callers[c].pc = "publish"]
    /\ UNCHANGED OpenPinned

\* db.db = rawDB; return nil; the deferred callbackLock.Unlock() runs.
OpenReturn(c) ==
    /\ Call(c).pc = "publish"
    /\ ow' = [ow EXCEPT !.lock = "free",
                        !.callers[c] = [Call(c) EXCEPT !.pc = "returned", !.db = Call(c).rawDB,
                                                       !.ret = NoErr]]
    /\ UNCHANGED OpenPinned

NextOpen ==
    \E c \in Callers :
       \/ OpenBegin(c)
       \/ OpenSQL(c)
       \/ OpenRetryCall(c)
       \/ OpenRetrySleepOver(c)
       \/ OpenPinged(c)
       \/ OpenGormOpened(c)
       \/ OpenLogger(c)
       \/ OpenLock(c)
       \/ OpenRegister(c)
       \/ OpenReturn(c)

SpecOpen == InitOpen /\ [][NextOpen]_vars

\* The call of c has returned because withRetries ran out of retries.
Exhausted(c) ==
    /\ Call(c).pc = "returned"
    /\ Call(c).rt.phase = "returned"
    /\ Call(c).rt.attempt = MaxRetries
    /\ IsRetryable(Call(c).rt.last)

\* C19: when the ping or gorm.Open has failed on every attempt,
\* OpenWithCacher returns the error of the last attempt wrapped with the
\* context of the failed stage, the raw SQL connection is closed and db.db
\* is left unset.
C19_ExhaustedOpenFails ==
    \A c \in Callers :
       Exhausted(c)
       => /\ Call(c).ret = Wrap(IF Call(c).statsCloser THEN "failed to initialize gorm"
                                ELSE "failed to create sql connection",
                                Call(c).rt.last.e)
          /\ Call(c).rawSQL = "closed"
          /\ Call(c).db = "unset"

\* Both stages are seen to run out of retries, on calls of different goroutines.
C19_Witness ==
    /\ Exhausted("c1")
    /\ Call("c1").ret = Wrap("failed to create sql connection", "e2")
    /\ Exhausted("c2")
    /\ Call("c2").ret = Wrap("failed to initialize gorm", "e1")

\* C20: at most one caller is inside the callback registration at a time, the
\* registration is executed at most once in the process, and a caller that
\* is not inside OpenWithCacher does not hold callbackLock.
C20_RegistrationOnce ==
    /\ Cardinality({c \in Callers : Call(c).pc \in {"register", "publish"}}) <= 1
    /\ ow.regs <= 1
    /\ \A c \in Callers : Call(c).pc \in {"idle", "returned"} => ow.lock # c

(***************************************************************************)
(* The callbacks on their own: each registered callback applied to a       *)
(* record the caller holds, one after the other in any order, with the     *)
(* caller changing the record's column in between.                         *)
(***************************************************************************)
MaxSteps == 2      \* callbacks applied to a record before the caller takes it up again

\* The columns of a verification code as the caller may set them.
CodeValues == {Blank, Txt("a")}

\* A field value of a type the callbacks do not know.
Bool(x) == <<"bool", x>>

\* strconv.ParseUint(x, 10, 64): decimal digits parse, anything else fails.
ParseUint(x) == [ok |-> \E n \in 0..42 : ToString(n) = x]

\* callbackIncrementMetric on a scope: the scope as it leaves it and the
\* number of stats.Record calls it made.
Counted(sc, n) == [scope |-> sc, records |-> n]

\* Variant of callbackIncrementMetric that does not look at the scope's
\* table.
callbackIncrementMetricAnyTable(sc, table) ==
    IF HasError(sc) THEN Counted(sc, 0)
    ELSE IF "realm_id" \in DOMAIN sc.fields
            /\ CanInterface(sc.fields["realm_id"])
            /\ sc.fields["realm_id"] # NilInterface
    THEN LET t == sc.fields["realm_id"]
         IN  IF t[1] = "uint" THEN Counted(sc, 1)
             ELSE IF t[1] = "string"
             THEN IF ParseUint(t[2]).ok THEN Counted(sc, 1)
                  ELSE Counted(Err(sc, "failed to parse realm_id"), 0)
             ELSE Counted(Err(sc, "realm_id is of unknown type"), 0)
    ELSE Counted(sc, 1)

callbackIncrementMetric(sc, table) ==
    IF sc.table # table THEN Counted(sc, 0)
    ELSE IF HasError(sc) THEN Counted(sc, 0)
    ELSE IF "realm_id" \in DOMAIN sc.fields
            /\ CanInterface(sc.fields["realm_id"])
            /\ sc.fields["realm_id"] # NilInterface
    THEN LET t == sc.fields["realm_id"]
         IN  IF t[1] = "uint" THEN Counted(sc, 1)
             ELSE IF t[1] = "string"
             THEN IF ParseUint(t[2]).ok THEN Counted(sc, 1)
                  ELSE Counted(Err(sc, "failed to parse realm_id"), 0)
             ELSE Counted(Err(sc, "realm_id is of unknown type"), 0)
    ELSE Counted(sc, 1)

\* The metric callback as OpenWithCacher registers it.
MetricHook == [fn |-> "callbackIncrementMetric", table |-> "audit_entries", column |-> "realm_id"]

\* What the realm_id field of an audit entry may hold.
RealmIDs == {Uint(1), Str("1"), Str("x"), Bool("true"), NilInterface, Unexported}

\* Audit entries, with and without a realm_id field.
AuditScopes ==
    {[table |-> "audit_entries", fields |-> [action |-> Str("created"), realm_id |-> v],
      err |-> NoErr] : v \in RealmIDs}
    \cup {[table |-> "audit_entries", fields |-> [action |-> Str("created")], err |-> NoErr]}

\* Users, as the cache purging callbacks find them.
UserScopes == {sc \in PurgeScopes : sc.table = "users"}

\* The records the callbacks are applied to: a struct of an encrypted table
\* with the optional cache and Ptr fields, a verification code.
HookScopes ==
    {[table |-> t, fields |-> NewFields(t, hasPC, hasCC, hasPtr, v), err |-> NoErr] :
        t \in EncTables, hasPC \in BOOLEAN, hasCC \in BOOLEAN, hasPtr \in BOOLEAN,
        v \in CallerValues \cup StoredValues}
    \cup
    {[table |-> "verification_codes", fields |-> [code |-> c, long_code |-> l], err |-> NoErr] :
        c \in CodeValues, l \in CodeValues}

\* What the resolver may answer during a run; it is asked for verification
\* codes only.
RunResolver(t) ==
    IF t = "verification_codes" THEN ResolverOutcomes ELSE {NoRun.res}

HookPinned == <<op, pc, row, caller, prev, hKeys, hData, hOut, hStore, cacher, rt, ow,
                grant, login>>

InitHooks ==
    /\ scope \in HookScopes
    /\ pre = scope
    /\ last = NoLast
    /\ deletes = <<>>
    /\ \E res \in RunResolver(scope.table) : run = [NoRun EXCEPT !.res = res]
    /\ op = "none"
    /\ pc = 0
    /\ row = NoRow
    /\ caller = Blank
    /\ prev = NoPrev
    /\ HelpersIdle
    /\ cacher = FALSE
    /\ rt = NoRetry
    /\ ow = NoOpen
    /\ HandlersIdle

\* A registered callback of the list hs may be applied to the record: one
\* of the record's table, or the first of the list that is of another table.
Applies(hs, i) ==
    \/ hs[i].table = scope.table
    \/ \A j \in 1..(i - 1) : hs[j].table = scope.table

\* The record can take another callback: the run is not over.
CanApply == run.steps < MaxSteps

\* The column of callback h does not hold MaxDepth nested encryptions or
\* signatures yet.
Shallow(h) == h.table = scope.table => Depth(scope.fields[h.column]) < MaxDepth


\* Callback h ran on the record with result sc and the given calls.
HookStep(h, column, sc, up, e, d, hash, calls, metrics) ==
    /\ scope' = sc
    /\ pre' = scope
    /\ last' = [fn |-> h.fn, table |-> h.table, column |-> column, acted |-> Acted(scope, h),
                up |-> (up \/ e + d = 0), enc |-> e, dec |-> d, hash |-> hash]
    /\ deletes' = calls
    /\ run' = [steps |-> run.steps + 1,
               start |-> IF run.steps = 0 THEN scope ELSE pre,
               first |-> last,
               res |-> run.res,
               metrics |-> metrics]

HookKMSEncrypt ==
    /\ CanApply
    /\ \E i \in 1..Len(EncryptHooks), n \in Nonces, up \in BOOLEAN :
          /\ Applies(EncryptHooks, i)
          /\ Shallow(EncryptHooks[i])
          /\ LET h == EncryptHooks[i]
                 r == callbackKMSEncrypt(scope, up, n, EncryptionKey, h.table, h.column)
             IN  HookStep(h, h.column, r.scope, up, r.enc, r.dec, r.hash, <<>>, 0)
    /\ UNCHANGED HookPinned

HookKMSDecrypt ==
    /\ CanApply
    /\ \E i \in 1..Len(DecryptHooks), up \in BOOLEAN :
          /\ Applies(DecryptHooks, i)
          /\ LET h == DecryptHooks[i]
                 r == callbackKMSDecrypt(scope, up, EncryptionKey, h.table, h.column)
             IN  HookStep(h, h.column, r.scope, up, r.enc, r.dec, r.hash, <<>>, 0)
    /\ UNCHANGED HookPinned

\* The keys the hash function resolves are those of the run.
\* A cache purging callback may be applied to the record: one of the
\* record's table where the model carries the table's identifying columns
\* (users), or the first registered one where it is of another table.
PurgeApplies(i) ==
    IF PurgeHooks[i].table = scope.table THEN scope.table = "users" ELSE i = 1

HookPurgeCache ==
    /\ CanApply
    /\ \E i \in 1..Len(PurgeHooks), delOk \in BOOLEAN :
          /\ PurgeApplies(i)
          /\ LET h == PurgeHooks[i]
                 r == callbackPurgeCache(scope, delOk, h.namespace, h.table, h.columns)
             IN  HookStep(h, h.columns[1], r.scope, TRUE, 0, 0, 0, r.calls, 0)
    /\ UNCHANGED HookPinned

HookIncrementMetric ==
    /\ CanApply
    /\ LET h == MetricHook
           r == callbackIncrementMetric(scope, h.table)
       IN  HookStep(h, h.column, r.scope, TRUE, 0, 0, 0, <<>>, r.records)
    /\ UNCHANGED HookPinned

HookHMAC ==
    /\ CanApply
    /\ \E i \in 1..Len(HMACHooks) :
          /\ Applies(HMACHooks, i)
          /\ Shallow(HMACHooks[i])
          /\ LET h == HMACHooks[i]
                 r == callbackHMAC(scope, run.res, h.table, h.column)
             IN  HookStep(h, h.column, r.scope, TRUE, r.enc, r.dec, r.hash, <<>>, 0)
    /\ UNCHANGED HookPinned

\* The caller assigns another value to a stored column and starts another
\* operation on the record.
CallerSet ==
    /\ \E c \in Persisted(scope.table), v \in CallerValues :
          /\ scope.fields[c] # v
          /\ scope' = [scope EXCEPT !.fields[c] = v, !.err = NoErr]
    /\ pre' = scope'
    /\ last' = NoLast
    /\ deletes' = <<>>
    /\ run' = [NoRun EXCEPT !.res = run.res]
    /\ UNCHANGED HookPinned

\* The caller starts another operation on the record as it is; the keys
\* the resolver holds may have changed.
RunReset ==
    /\ run.steps > 0
    /\ scope' = [scope EXCEPT !.err = NoErr]
    /\ pre' = scope'
    /\ last' = NoLast
    /\ deletes' = <<>>
    /\ \E res \in RunResolver(scope.table) : run' = [NoRun EXCEPT !.res = res]
    /\ UNCHANGED HookPinned

\* A step of the operation ahead of the callbacks fails.
HookFail ==
    /\ run.steps = 0
    /\ ~HasError(scope)
    /\ scope' = Err(scope, "db error")
    /\ pre' = scope'
    /\ UNCHANGED <<last, deletes, run>>
    /\ UNCHANGED HookPinned

NextHooks ==
    \/ HookKMSEncrypt
    \/ HookKMSDecrypt
    \/ HookHMAC
    \/ CallerSet
    \/ RunReset
    \/ HookFail

SpecHooks == InitHooks /\ [][NextHooks]_vars

\* The records all five kinds of callback are applied to: a struct of an
\* encrypted table, bare or with the cache and Ptr fields, a verification
\* code, an audit entry, a user.
GuardScopes ==
    {[table |-> t, fields |-> NewFields(t, full, full, full, v), err |-> NoErr] :
        t \in EncTables, full \in BOOLEAN,
        v \in {Txt("a"), B64(<<"ct", EncryptionKey, Txt("a"), 1>>)}}
    \cup
    {[table |-> "verification_codes", fields |-> [code |-> c, long_code |-> l], err |-> NoErr] :
        c \in CodeValues, l \in CodeValues}
    \cup AuditScopes
    \cup UserScopes

InitGuards ==
    /\ scope \in GuardScopes
    /\ pre = scope
    /\ last = NoLast
    /\ deletes = <<>>
    /\ \E res \in RunResolver(scope.table) : run = [NoRun EXCEPT !.res = res]
    /\ op = "none"
    /\ pc = 0
    /\ row = NoRow
    /\ caller = Blank
    /\ prev = NoPrev
    /\ HelpersIdle
    /\ cacher = FALSE
    /\ rt = NoRetry
    /\ ow = NoOpen
    /\ HandlersIdle

NextGuards ==
    \/ HookKMSEncrypt
    \/ HookKMSDecrypt
    \/ HookHMAC
    \/ HookPurgeCache
    \/ HookIncrementMetric
    \/ RunReset
    \/ HookFail

SpecGuards == InitGuards /\ [][NextGuards]_vars

(***************************************************************************)
(* Shorthands for the claims on the callbacks applied on their own.        *)
(***************************************************************************)
\* The last two callbacks applied were the same registered callback fn, on a
\* record of its table.
Twice(fn) ==
    /\ run.steps >= 2
    /\ last.fn = fn
    /\ run.first.fn = fn
    /\ last.table = run.first.table
    /\ last.column = run.first.column
    /\ last.table = scope.table

\* C21: the encrypt and decrypt callbacks are idempotent on an unchanged
\* record: applied a second time right after the first, the callback leaves
\* the record and the scope's error state as the first application left them.
C21_HooksIdempotent ==
    (Twice("encrypt") \/ Twice("decrypt")) => scope = pre

\* The record the last callback ran on declares exactly one of the two
\* cache columns of the callback's column.
PartialCache == PlainCacheBefore.field # CipherCacheBefore.field

\* C22: a record type that declares only one of <column>PlaintextCache and
\* <column>CiphertextCache is a configuration error: an encrypt or decrypt
\* callback that gets to work on a non-blank column of such a record puts the
\* scope in the error state and writes no cache column.
C22_PartialCacheIsError ==
    ((JustRan("encrypt") \/ JustRan("decrypt")) /\ Before # Blank /\ PartialCache)
    => /\ HasError(scope)
       /\ PlainCacheBefore.field
          => Col(scope, last.column \o "PlaintextCache") = PlainCacheBefore.val
       /\ CipherCacheBefore.field
          => Col(scope, last.column \o "CiphertextCache") = CipherCacheBefore.val

\* The two HMAC callbacks of verification_codes were applied one after the
\* other to a verification code.
HMACPair ==
    /\ run.steps >= 2
    /\ last.fn = "hmac"
    /\ run.first.fn = "hmac"
    /\ scope.table = "verification_codes"
    /\ last.column # run.first.column

\* The record the pair started from with the two callbacks applied in the
\* other order.
Swapped ==
    callbackHMAC(callbackHMAC(run.start, run.res, "verification_codes", last.column).scope,
                 run.res, "verification_codes", run.first.column).scope

\* C23: the two HMAC callbacks of verification_codes are independent of
\* their order: applied to the same record in the other order they give the
\* same columns and the same success or failure, and each of them changes no
\* column but its own.
C23_HMACOrderInsensitive ==
    /\ HMACPair => /\ scope.fields = Swapped.fields
                   /\ HasError(scope) = HasError(Swapped)
    /\ (last.fn = "hmac" /\ last.table = scope.table)
       => \A c \in DOMAIN scope.fields \ {last.column} : scope.fields[c] = pre.fields[c]

\* Both columns set, both signed, in the order long_code then code.
C23_Witness ==
    /\ HMACPair
    /\ last.column = "code"
    /\ ~HasError(scope)
    /\ scope.fields["code"] = URL64(HMAC512("kB", Txt("a")))
    /\ scope.fields["long_code"] = URL64(HMAC512("kB", Txt("a")))
    /\ run.start.fields["code"] = Txt("a")
    /\ run.start.fields["long_code"] = Txt("a")

(***************************************************************************)
(* pkg/rbac (rbac.go).  A Permission is an int64 used as a bit set; the    *)
(* permissions are the bits 1 to 14.                                       *)
(***************************************************************************)
AuditRead == 2
APIKeyRead == 4
APIKeyWrite == 8
CodeIssue == 16
CodeBulkIssue == 32
CodeRead == 64
CodeExpire == 128
SettingsRead == 256
SettingsWrite == 512
StatsRead == 1024
MobileAppRead == 2048
MobileAppWrite == 4096
UserRead == 8192
UserWrite == 16384

RECURSIVE BitAnd(_, _)
\* a & b of two non-negative integers.
BitAnd(a, b) ==
    IF a = 0 \/ b = 0 THEN 0
    ELSE (a % 2) * (b % 2) + 2 * BitAnd(a \div 2, b \div 2)

\* a | b of two non-negative integers.
BitOr(a, b) == a + b - BitAnd(a, b)

LegacyRealmUser == BitOr(BitOr(CodeIssue, CodeBulkIssue), BitOr(CodeRead, CodeExpire))

LegacyRealmAdmin ==
    BitOr(AuditRead,
    BitOr(BitOr(APIKeyRead, APIKeyWrite),
    BitOr(LegacyRealmUser,
    BitOr(BitOr(SettingsRead, SettingsWrite),
    BitOr(StatsRead,
    BitOr(BitOr(MobileAppRead, MobileAppWrite),
          BitOr(UserRead, UserWrite)))))))

Can(given, target) == BitAnd(given, target) # 0

RECURSIVE CompileFrom(_, _, _, _)
\* The loop of CompileAndAuthorize from element i on, permission being the
\* bits collected so far.
CompileFrom(actorPermission, toUpdate, i, permission) ==
    IF i > Len(toUpdate) THEN [permission |-> permission, err |-> NoErr]
    ELSE IF ~Can(actorPermission, toUpdate[i])
         THEN [permission |-> 0,
               err |-> "actor does not have all scopes which are being granted"]
         ELSE CompileFrom(actorPermission, toUpdate, i + 1, BitOr(permission, toUpdate[i]))

CompileAndAuthorize(actorPermission, toUpdate) ==
    CompileFrom(actorPermission, toUpdate, 1, 0)

MaxUpdates == 2    \* longest toUpdate list

\* The permissions an actor may hold.
ActorPermissions ==
    {0, AuditRead, CodeIssue, LegacyRealmUser, BitOr(UserRead, UserWrite), LegacyRealmAdmin}

\* The permissions a toUpdate list may name.
UpdatePermissions ==
    {AuditRead, CodeIssue, CodeRead, UserWrite, LegacyRealmUser, LegacyRealmAdmin}

UpdateLists == UNION {[1..n -> UpdatePermissions] : n \in 0..MaxUpdates}

GrantPinned == <<scope, op, pc, row, pre, last, caller, prev, hKeys, hData, hOut, hStore,
                 cacher, deletes, rt, ow, run, login>>

InitRBAC ==
    /\ PipelineIdle
    /\ HelpersIdle
    /\ NoCacher
    /\ rt = NoRetry
    /\ ow = NoOpen
    /\ run = NoRun
    /\ login = NoLogin
    /\ \E a \in ActorPermissions, u \in UpdateLists :
          grant = [NoGrant EXCEPT !.actorPermission = a, !.toUpdate = u]

\* CompileAndAuthorize runs on its arguments and returns.
GrantCall ==
    /\ grant.pc = "idle"
    /\ LET r == CompileAndAuthorize(grant.actorPermission, grant.toUpdate)
       IN  grant' = [grant EXCEPT !.pc = "returned", !.permission = r.permission, !.err = r.err]
    /\ UNCHANGED GrantPinned

NextRBAC == GrantCall

SpecRBAC == InitRBAC /\ [][NextRBAC]_vars

\* C24: whenever CompileAndAuthorize returns without error, the bits of the
\* permission it returns are a subset of the bits of actorPermission,
\* whatever the elements of toUpdate are (single bits or composite sets).
C24_NoPrivilegeEscalation ==
    (grant.pc = "returned" /\ grant.err = NoErr)
    => BitAnd(grant.permission, grant.actorPermission) = grant.permission

(***************************************************************************)
(* pkg/controller/login (create.go): HandleCreate.  The session is the     *)
(* values of the user's session: the firebase cookie stored in it and the  *)
(* flash messages.                                                         *)
(***************************************************************************)
StatusOK == 200
StatusBadRequest == 400
StatusUnauthorized == 401

\* The statuses controller.MissingSession and controller.Unauthorized may
\* answer with.
ErrorStatuses == {StatusBadRequest, StatusUnauthorized, 500}

\* flash.Error: the message is added to the session's flashes.
FlashError(session, msg) == [session EXCEPT !.flash = @ \cup {msg}]

\* controller.StoreSessionFirebaseCookie.
StoreSessionFirebaseCookie(session, cookie) == [session EXCEPT !.firebaseCookie = cookie]

\* middleware.VerifyCookieAndUser: the database user of the cookie, or nil;
\* found tells which.
VerifyCookieAndUser(session, cookie, found) == [session |-> session, user |-> found]

\* What HandleCreate leaves behind: the session, whether the cookie was
\* stored in it, and the status of the response.
Served(session, stored, status) == [session |-> session, stored |-> stored, status |-> status]

\* Variant of HandleCreate that stores the cookie as soon as firebase has
\* returned it, before the user is looked up.
HandleCreateStoreFirst(session, hasSession, bindOk, fb, found, es) ==
    IF ~hasSession THEN Served(session, FALSE, es)
    ELSE IF ~bindOk
    THEN Served(FlashError(session, "Failed to process form"), FALSE, StatusBadRequest)
    ELSE IF ~fb.ok
    THEN Served(FlashError(session, "Failed to create session"), FALSE, StatusUnauthorized)
    ELSE LET st == StoreSessionFirebaseCookie(session, fb.cookie)
             v == VerifyCookieAndUser(st, fb.cookie, found)
         IN  IF ~v.user THEN Served(v.session, TRUE, es)
             ELSE Served(v.session, TRUE, StatusOK)

\* The handler HandleCreate returns.  hasSession: the request's context
\* holds a session; bindOk: BindForm succeeded; fb: what SessionCookie
\* returned; found: a database user exists for the cookie; es: the status
\* the error helpers answer with.
HandleCreate(session, hasSession, bindOk, fb, found, es) ==
    IF ~hasSession THEN Served(session, FALSE, es)
    ELSE IF ~bindOk
    THEN Served(FlashError(session, "Failed to process form"), FALSE, StatusBadRequest)
    ELSE IF ~fb.ok
    THEN Served(FlashError(session, "Failed to create session"), FALSE, StatusUnauthorized)
    ELSE LET v == VerifyCookieAndUser(session, fb.cookie, found)
         IN  IF ~v.user THEN Served(v.session, FALSE, es)
             ELSE Served(StoreSessionFirebaseCookie(v.session, fb.cookie), TRUE, StatusOK)

MaxCookies == 2    \* distinct session cookies firebase may return

\* What c.client.SessionCookie may return: a cookie, or an error.
FirebaseOutcomes ==
    {[ok |-> TRUE, cookie |-> Txt(ToString(i))] : i \in 1..MaxCookies}
    \cup {[ok |-> FALSE, cookie |-> Blank]}

LoginPinned == <<scope, op, pc, row, pre, last, caller, prev, hKeys, hData, hOut, hStore,
                 cacher, deletes, rt, ow, run, grant>>

InitLogin ==
    /\ PipelineIdle
    /\ HelpersIdle
    /\ NoCacher
    /\ rt = NoRetry
    /\ ow = NoOpen
    /\ run = NoRun
    /\ grant = NoGrant
    /\ login = NoLogin

\* A POST of the login form is served.
LoginCreate ==
    /\ \E hasSession, bindOk, found \in BOOLEAN, fb \in FirebaseOutcomes, es \in ErrorStatuses :
          LET r == HandleCreate(login.session, hasSession, bindOk, fb, found, es)
          IN  login' = [session |-> r.session, before |-> login.session, served |-> TRUE,
                        hasSession |-> hasSession, bindOk |-> bindOk, cookie |-> fb.cookie,
                        cookieOk |-> fb.ok, user |-> found, stored |-> r.stored,
                        status |-> r.status]
    /\ UNCHANGED LoginPinned

NextLogin == LoginCreate

SpecLogin == InitLogin /\ [][NextLogin]_vars

\* The request went all the way: a session, a bound form, a cookie from
\* firebase and a database user for it.
LoginPassed == login.hasSession /\ login.bindOk /\ login.cookieOk /\ login.user

PtrBefore == getFieldString(pre, last.column \o "Ptr")
PtrAfter == scope.fields[last.column \o "Ptr"]

\* callbackKMSEncrypt succeeded on a plaintext that is not the cached one.
EncryptMiss ==
    /\ JustRan("encrypt")
    /\ Before # Blank
    /\ ~EncryptHit
    /\ ~HasError(scope)

\* C26: after callbackKMSEncrypt succeeds on a cache miss, the real column
\* holds a fresh ciphertext of the plaintext it held before, the Ptr mirror
\* and CiphertextCache, where present, hold that same ciphertext, and
\* PlaintextCache, where present, holds the plaintext the real column held
\* before the callback.
C26_EncryptMissColumns ==
    EncryptMiss
    => /\ last.enc = 1
       /\ Opened(After).ok
       /\ Opened(After).p = Before
       /\ PtrBefore.field => PtrAfter = Ptr(After)
       /\ CipherCacheBefore.field => Col(scope, last.column \o "CiphertextCache") = After
       /\ PlainCacheBefore.field => Col(scope, last.column \o "PlaintextCache") = Before

\* A record with the mirror and both caches, the caches filled by an earlier
\* callback, whose column the caller changed before it was encrypted.
C26_Witness ==
    /\ EncryptMiss
    /\ PtrBefore.field
    /\ PlainCacheBefore.val = Txt("a")
    /\ CipherCacheBefore.val # Blank
    /\ Before = Txt("b")
    /\ Col(scope, last.column \o "PlaintextCache") = Txt("b")

\* callbackKMSDecrypt succeeded on a ciphertext that is not the cached one.
DecryptMiss ==
    /\ JustRan("decrypt")
    /\ Before # Blank
    /\ ~DecryptHit
    /\ ~HasError(scope)

\* C27: after callbackKMSDecrypt succeeds on a cache miss, the real column
\* holds the plaintext of the ciphertext it held before, the Ptr mirror and
\* PlaintextCache, where present, hold that same plaintext, and
\* CiphertextCache, where present, holds the ciphertext the real column
\* held before the callback.
C27_DecryptMissColumns ==
    DecryptMiss
    => /\ last.dec = 1
       /\ Opened(Before).ok
       /\ After = Opened(Before).p
       /\ PtrBefore.field => PtrAfter = Ptr(After)
       /\ PlainCacheBefore.field => Col(scope, last.column \o "PlaintextCache") = After
       /\ CipherCacheBefore.field => Col(scope, last.column \o "CiphertextCache") = Before

\* A record with the mirror and both caches, loaded with a ciphertext.
C27_Witness ==
    /\ DecryptMiss
    /\ PtrBefore.field
    /\ PlainCacheBefore.field
    /\ CipherCacheBefore.field
    /\ CipherCacheBefore.val = Blank
    /\ Before = B64(<<"ct", EncryptionKey, Txt("a"), 1>>)
    /\ After = Txt("a")

\* The cache columns of the record as they are now.
PlainCacheNow == getFieldString(scope, EncColumn(scope.table) \o "PlaintextCache")
CipherCacheNow == getFieldString(scope, EncColumn(scope.table) \o "CiphertextCache")
CachesPopulated ==
    /\ scope.table \in EncTables
    /\ PlainCacheNow.ok /\ PlainCacheNow.val # Blank
    /\ CipherCacheNow.ok /\ CipherCacheNow.val # Blank

\* C28: whatever encrypt and decrypt callbacks have run on a record and
\* whatever the caller has assigned to its real column in between, when both
\* cache columns are populated the cached ciphertext decrypts under the
\* configured key to the cached plaintext.
C28_CachePairConsistent ==
    CachesPopulated
    => /\ Opened(CipherCacheNow.val).ok
       /\ Opened(CipherCacheNow.val).p = PlainCacheNow.val

\* The caches were filled by a decryption, the caller changed the column and
\* the encryption has refilled them.
C28_Witness ==
    /\ CachesPopulated
    /\ JustRan("encrypt")
    /\ PlainCacheBefore.val = Txt("a")
    /\ CipherCacheBefore.val = B64(<<"ct", EncryptionKey, Txt("a"), 1>>)
    /\ PlainCacheNow.val = Txt("b")

\* A callback has just been applied to the record.
HookRan == last.fn # "none"

\* The last callback made no Key Manager, hash or cache call.
NoCalls == last.enc = 0 /\ last.dec = 0 /\ last.hash = 0 /\ deletes = <<>>

\* C29: table scoping.  A callback built for one table (encrypt, decrypt,
\* HMAC, cache purge, metric) that is applied to a record of another table
\* leaves the record and the scope's error as they were and makes no Key
\* Manager, hash, cache or metric call.
C29_TableScoping ==
    (HookRan /\ last.table # pre.table)
    => /\ scope = pre
       /\ NoCalls
       /\ run.metrics = 0

\* The metric callback of audit_entries applied to a user that is not in
\* error.
C29_Witness ==
    /\ HookRan
    /\ last.fn = "callbackIncrementMetric"
    /\ pre.table = "users"
    /\ ~HasError(pre)
    /\ run.metrics = 0

\* C30: a callback applied to a scope that is already in error makes no Key
\* Manager, hash or cache call and changes no column; so a cache entry is
\* only ever deleted for a scope that reached the callback without error.
C30_NoopAfterError ==
    /\ (HookRan /\ HasError(pre)) => (scope = pre /\ NoCalls)
    /\ (HookRan /\ deletes # <<>>) => ~HasError(pre)

\* The purge callback of users applied to a user whose operation failed.
C30_Witness ==
    /\ HookRan
    /\ HasError(pre)
    /\ last.fn = "callbackPurgeCache"
    /\ last.table = "users"
    /\ pre.table = "users"
    /\ deletes = <<>>

\* A stored column of a verification code holds a text as a caller writes
\* it, not a signature.
StoredPlain(c) == row.fields[c] # Blank /\ row.fields[c][1] = "txt"

\* The HMAC callback called the hash function and the column is as it was.
HashFailed == JustRan("hmac") /\ last.hash = 1 /\ After = Before

\* C31: verification codes are never persisted in plaintext: whatever creates
\* and updates have run on a verification_codes row, a code or long_code the
\* caller set to a non-empty plaintext is stored as the signature of the hash
\* function, never as the plaintext; and when the hash function fails the
\* scope is in error and the write that follows stores nothing.
C31_CodesNeverPlaintext ==
    /\ (row.exists /\ scope.table = "verification_codes")
       => (~StoredPlain("code") /\ ~StoredPlain("long_code"))
    /\ HashFailed => HasError(scope)
    /\ (last.fn = "gorm:write" /\ HasError(pre)) => HasError(scope)

\* The call of c has returned an error.
Failed(c) == Call(c).pc = "returned" /\ Call(c).ret # NoErr

\* C32: OpenWithCacher publishes the database handle only after the
\* callbacks are registered, and every call that returns an error leaves the
\* handle unset and has closed the raw SQL connection if it had opened one,
\* the failure to configure the logger included.
C32_PublishLastCloseOnError ==
    \A c \in Callers :
       /\ Call(c).db # "unset"
          => (Call(c).pc = "returned" /\ Call(c).ret = NoErr /\ ow.regs >= 1)
       /\ Failed(c) => (Call(c).db = "unset" /\ Call(c).rawSQL # "open")

====
